---- MODULE Spec2Model ----
(***************************************************************************)
(* The WhisperKit transcription sidecar                                    *)
(* (whisperkit-sidecar/Sources/WhisperKitSidecar/main.swift): a protocol   *)
(* loop that reads one JSON command per line from standard input, drives   *)
(* the TranscriptionEngine actor, and writes one JSON reply per command to *)
(* standard output, with diagnostics on standard error.                    *)
(*                                                                         *)
(* Standard input, the file system, WhisperKit's model construction and    *)
(* its inference are the environment: each is a nondeterministic choice    *)
(* at the step that uses it.                                               *)
(***************************************************************************)
EXTENDS Integers, Sequences, FiniteSets, TLC

VARIABLES
    pc,            \* position of the main loop
    consumed,      \* every line readLine has returned so far, in order
    request,       \* the decoded Request of the line being processed
    response,      \* the Response of the line being processed, once built
    whisperKit,    \* TranscriptionEngine.whisperKit (an optional handle)
    kit,           \* transcribe's local binding of the handle
    audioData,     \* transcribe's bytes of the audio file, once read
    audioSamples,  \* transcribe's decoded sample buffer
    options,       \* transcribe's DecodingOptions
    stdout,        \* lines flushed to standard output, as the host sees them
    stdoutBuf,     \* lines printed to standard output and not yet flushed
    stderr,        \* lines written to standard error
    exitCode,      \* the process's exit status, once it has exited
    calls,         \* how often the line being processed used each capability
    live,          \* the model objects in memory: built or being built, not released
    active,        \* the engine operations entered and not yet returned
    ui,            \* the onboarding permissions screen, if the host application shows it
    flow,          \* the onboarding flow component (OnboardingFlow), if any
    selection,     \* the onboarding model-selection screen, if any
    shortcut       \* the onboarding shortcut screen, if any

vars == <<pc, consumed, request, response, whisperKit, kit, audioData,
          audioSamples, options, stdout, stdoutBuf, stderr, exitCode, calls,
          live, active, ui, flow, selection, shortcut>>

(* The components of the host application's onboarding.                    *)
screens == <<ui, flow, selection, shortcut>>

----------------------------------------------------------------------------
(* Bounds of the model.                                                    *)

MaxLines == 3

MaxBytes == 9

(* Swift optionals: nil, or a wrapped value.                               *)
None == <<>>

Some(x) == <<x>>

----------------------------------------------------------------------------
(* Input lines.  A line is empty, text that is not JSON, or a JSON object  *)
(* (a map from its keys to tagged JSON values).                            *)

Str(s) == [t |-> "str", v |-> s]

Num == [t |-> "num"]

Null == [t |-> "null"]

Obj(m) == [form |-> "object", members |-> m]

EmptyLine == [form |-> "empty"]

NotJson == [form |-> "text"]

Lines ==
    { EmptyLine,
      NotJson,
      Obj([type |-> Str("load"), model_path |-> Str("m1")]),
      Obj([type |-> Str("load"), model_path |-> Str("m2")]),
      Obj([type |-> Str("load")]),
      Obj([type |-> Str("load"), model_path |-> Num]),
      Obj([model_path |-> Str("m1")]),
      Obj([type |-> Num]),
      Obj([type |-> Str("transcribe"), audio_path |-> Str("a1")]),
      Obj([type |-> Str("transcribe"), audio_path |-> Str("a1"),
           language |-> Str("auto")]),
      Obj([type |-> Str("transcribe"), audio_path |-> Str("a1"),
           language |-> Str("dv")]),
      Obj([type |-> Str("transcribe"), audio_path |-> Str("a1"),
           language |-> Null]),
      Obj([type |-> Str("transcribe"), language |-> Null]),
      Obj([type |-> Str("unload")]),
      Obj([type |-> Str("health")]),
      Obj([type |-> Str("shutdown")]),
      Obj([type |-> Str("bogus")]) }

(* An error message: the sequence of its literal and interpolated parts.   *)
Msg(s) == <<s>>

(* What the environment can answer: error.localizedDescription of what     *)
(* WhisperKit or the file system throws, the bytes of an audio file, the   *)
(* segment texts of an inference.                                          *)
LoadErrors == {Msg("model load failed")}

ReadErrors == {Msg("file not found")}

InferErrors == {Msg("inference failed")}

AudioFiles == { [i \in 1..n |-> (37 * i) % 128] : n \in 0..MaxBytes }

SegmentLists ==
    { <<>>,
      << <<" ", "a">> >>,
      << <<"a">>, <<" ", "b", " ">> >>,
      << <<"\n">>, <<"a", " ", "b">>, <<>> >> }

----------------------------------------------------------------------------
(* struct Request: Decodable.  The synthesized decoder needs a JSON object *)
(* whose type is a string; an optional field may be absent, null or a      *)
(* string, and anything else makes the whole decode throw.                 *)

RequestKeys == {"type", "model_path", "audio_path", "language"}

OptionalFieldOk(m, k) == k \notin DOMAIN m \/ m[k].t \in {"null", "str"}

DecodeOptional(m, k) ==
    IF k \in DOMAIN m /\ m[k].t = "str" THEN Some(m[k].v) ELSE None

(* A variant of DecodeRequest whose optional fields must be absent or      *)
(* strings: a null makes the decode throw.                                 *)
DecodeRequestRejectsNull(line) ==
    IF /\ line.form = "object"
       /\ "type" \in DOMAIN line.members
       /\ line.members["type"].t = "str"
       /\ \A k \in RequestKeys \ {"type"} :
            k \notin DOMAIN line.members \/ line.members[k].t = "str"
    THEN Some([type       |-> line.members["type"].v,
               model_path |-> DecodeOptional(line.members, "model_path"),
               audio_path |-> DecodeOptional(line.members, "audio_path"),
               language   |-> DecodeOptional(line.members, "language")])
    ELSE None

(* A variant of DecodeRequest that decodes each optional field with try?,  *)
(* so a field of the wrong JSON type is read as nil instead of failing     *)
(* the decode.                                                             *)
DecodeRequestLenient(line) ==
    IF /\ line.form = "object"
       /\ "type" \in DOMAIN line.members
       /\ line.members["type"].t = "str"
    THEN Some([type       |-> line.members["type"].v,
               model_path |-> DecodeOptional(line.members, "model_path"),
               audio_path |-> DecodeOptional(line.members, "audio_path"),
               language   |-> DecodeOptional(line.members, "language")])
    ELSE None

DecodeRequest(line) ==
    IF /\ line.form = "object"
       /\ "type" \in DOMAIN line.members
       /\ line.members["type"].t = "str"
       /\ \A k \in RequestKeys \ {"type"} : OptionalFieldOk(line.members, k)
    THEN Some([type       |-> line.members["type"].v,
               model_path |-> DecodeOptional(line.members, "model_path"),
               audio_path |-> DecodeOptional(line.members, "audio_path"),
               language   |-> DecodeOptional(line.members, "language")])
    ELSE None

(* struct Response: Encodable.  Every field but type is optional; the      *)
(* memberwise initializer leaves the fields it is not given nil.           *)

ResponseKeys == {"type", "success", "text", "error", "model_loaded"}

Response(type, success, text, error, model_loaded) ==
    [type |-> Some(type), success |-> success, text |-> text,
     error |-> error, model_loaded |-> model_loaded]

(* A variant of EncodeResponse whose encoder writes a nil field as null.   *)
EncodeResponseNulls(r) ==
    Obj([k \in ResponseKeys |-> IF r[k] = None THEN Null ELSE r[k][1]])

(* JSONEncoder on a Response: the synthesized encoder writes an optional   *)
(* field only when it is not nil, so the object holds the present keys.    *)
EncodeResponse(r) ==
    Obj([k \in {f \in ResponseKeys : r[f] # None} |-> r[k][1]])

----------------------------------------------------------------------------
(* Text: a string is a sequence of characters.                             *)

Whitespace == {" ", "\t", "\n", "\r"}

(* A variant of Joined that concatenates the segments with nothing         *)
(* between them.                                                           *)
RECURSIVE JoinedTight(_, _)
JoinedTight(segs, sep) ==
    IF Len(segs) = 0 THEN <<>>
    ELSE segs[1] \o JoinedTight(Tail(segs), sep)

RECURSIVE Joined(_, _)
Joined(segs, sep) ==
    IF Len(segs) = 0 THEN <<>>
    ELSE IF Len(segs) = 1 THEN segs[1]
    ELSE segs[1] \o sep \o Joined(Tail(segs), sep)

RECURSIVE TrimLeading(_)
TrimLeading(s) ==
    IF Len(s) > 0 /\ s[1] \in Whitespace THEN TrimLeading(Tail(s)) ELSE s

RECURSIVE TrimTrailing(_)
TrimTrailing(s) ==
    IF Len(s) > 0 /\ s[Len(s)] \in Whitespace
    THEN TrimTrailing(SubSeq(s, 1, Len(s) - 1))
    ELSE s

TrimmingWhitespace(s) == TrimTrailing(TrimLeading(s))

(* results.map(\.text).joined(separator: " ").trimmingCharacters(...)      *)
ResultText(results) == TrimmingWhitespace(Joined(results, <<" ">>))

----------------------------------------------------------------------------
(* Audio: the file's bytes read as consecutive 32-bit floats, a float      *)
(* standing for its little-endian bit pattern.                             *)

FloatSize == 4

FloatAt(data, i) ==
    LET b == FloatSize * i
    IN  data[b + 1] + 256 * data[b + 2] + 65536 * data[b + 3]
          + 16777216 * data[b + 4]

(* A variant of DecodeSamples that rounds the sample count up and reads    *)
(* the missing bytes of the last sample as zero.                           *)
DecodeSamplesPadded(data) ==
    LET floatCount == (Len(data) + FloatSize - 1) \div FloatSize
        padded == data \o [i \in 1..(FloatSize * floatCount - Len(data)) |-> 0]
    IN  [i \in 1..floatCount |-> FloatAt(padded, i - 1)]

DecodeSamples(data) ==
    LET floatCount == Len(data) \div FloatSize
    IN  [i \in 1..floatCount |-> FloatAt(data, i - 1)]

(* DecodingOptions() as WhisperKit constructs it, then the three settings  *)
(* transcribe makes.                                                       *)
DefaultDecodingOptions ==
    [language |-> None, skipSpecialTokens |-> FALSE, withoutTimestamps |-> FALSE]

(* A variant of BuildOptions that sets the language whenever one is given, *)
(* "auto" included.                                                        *)
BuildOptionsPassesAuto(language) ==
    LET base == DefaultDecodingOptions
        withLang == IF language # None
                    THEN [base EXCEPT !.language = language]
                    ELSE base
    IN  [withLang EXCEPT !.skipSpecialTokens = TRUE, !.withoutTimestamps = TRUE]

BuildOptions(language) ==
    LET base == DefaultDecodingOptions
        withLang == IF language # None /\ language[1] # "auto"
                    THEN [base EXCEPT !.language = language]
                    ELSE base
    IN  [withLang EXCEPT !.skipSpecialTokens = TRUE, !.withoutTimestamps = TRUE]

----------------------------------------------------------------------------
(* The three streams.  io is the record of what each holds.                *)

Streams == [out |-> stdout, buf |-> stdoutBuf, err |-> stderr]

LogLine(msg) == [form |-> "text", msg |-> msg]

(* A variant of Log that prints the diagnostic on standard output.         *)
LogToStdout(io, msg) == [io EXCEPT !.out = Append(@, LogLine(msg))]

(* func log(_:) : one tagged line on standard error.                       *)
Log(io, msg) == [io EXCEPT !.err = Append(@, LogLine(msg))]

(* print(json): one line into standard output's buffer.                    *)
PrintLine(io, json) == [io EXCEPT !.buf = Append(@, json)]

(* fflush(stdout): the buffer reaches the host.                            *)
Fflush(io) == [io EXCEPT !.out = @ \o io.buf, !.buf = <<>>]

(* if let data = try? encoder.encode(r), ... { print(json); fflush(stdout) } *)
(* A variant of WriteResponse that prints the reply and leaves it in the   *)
(* buffer.                                                                 *)
WriteResponseNoFlush(io, r) == PrintLine(io, EncodeResponse(r))

WriteResponse(io, r) == Fflush(PrintLine(io, EncodeResponse(r)))

SetStreams(io) ==
    /\ stdout' = io.out
    /\ stdoutBuf' = io.buf
    /\ stderr' = io.err

----------------------------------------------------------------------------
(* The state of the line being processed.                                  *)

Last(s) == s[Len(s)]

(* calls: for the line being processed, how often WhisperKit(config) was   *)
(* called (construct) and returned a model (built), how often the audio    *)
(* file was read (read), how often kit.transcribe was called (infer) and   *)
(* returned (inferred), the error a capability threw, if one did, and the  *)
(* segments the inference returned, if it did.                             *)
NoCalls ==
    [construct |-> 0, built |-> 0, read |-> 0, infer |-> 0, inferred |-> 0,
     thrown |-> None, results |-> None]

(* An engine method is entered, and returns or throws.                     *)
Enter(ops, op) == Append(ops, op)

Leave(ops, op) ==
    LET i == CHOOSE j \in 1..Len(ops) : ops[j] = op /\ \A h \in 1..(j - 1) : ops[h] # op
    IN  SubSeq(ops, 1, i - 1) \o SubSeq(ops, i + 1, Len(ops))

(* A reference is dropped: the objects it held leave memory.               *)
Released(objects, ref) == { o \in objects : Some(o) # ref }

(* The non-empty lines read so far: the lines that are answered.           *)
Cmds == SelectSeq(consumed, LAMBDA l : l.form # "empty")

(* try? decoder.decode(Request.self, from: requestData) on the line read.  *)
CurrentRequest == DecodeRequest(Last(consumed))

(* WhisperKit(config): a fresh model object for the folder, told apart     *)
(* from every other by the number of the command that built it.            *)
NewKit(path) == [modelFolder |-> path, id |-> Len(Cmds)]

(* The state when the loop is first entered: the engine is constructed    *)
(* with no model and the banner is logged.                                 *)
Started ==
    Log([out |-> <<>>, buf |-> <<>>, err |-> <<>>],
        "WhisperKit sidecar started, waiting for commands...")

SidecarInit ==
    /\ pc = "read"
    /\ consumed = <<>>
    /\ request = None
    /\ response = None
    /\ whisperKit = None
    /\ kit = None
    /\ audioData = None
    /\ audioSamples = <<>>
    /\ options = None
    /\ stdout = Started.out
    /\ stdoutBuf = Started.buf
    /\ stderr = Started.err
    /\ exitCode = None
    /\ calls = NoCalls
    /\ live = {}
    /\ active = <<>>

(* The sidecar on its own: no screen of the host application is mounted.   *)
Init == SidecarInit /\ ui = None /\ flow = None /\ selection = None /\ shortcut = None

----------------------------------------------------------------------------
(* The main loop.                                                          *)

(* A variant of ReadLine for a pipelined loop: the next line is read while *)
(* the reply to the previous one is still to be written.                   *)
ReadLinePipelined ==
    /\ pc \in {"read", "write"}
    /\ Len(consumed) < MaxLines
    /\ \E line \in Lines :
         /\ consumed' = Append(consumed, line)
         /\ IF line.form = "empty"
            THEN UNCHANGED <<pc, calls>>
            ELSE pc' = "decode" /\ calls' = NoCalls
    /\ UNCHANGED <<request, response, whisperKit, kit, audioData, audioSamples, options,
                   stdout, stdoutBuf, stderr, exitCode>>
    /\ UNCHANGED <<live, active>>
    /\ UNCHANGED screens

(* A variant of ReadLine without the empty-line guard: every line read is  *)
(* handed to the decoder.                                                  *)
ReadLineNoEmptyGuard ==
    /\ pc = "read"
    /\ Len(consumed) < MaxLines
    /\ \E line \in Lines : consumed' = Append(consumed, line)
    /\ pc' = "decode"
    /\ calls' = NoCalls
    /\ UNCHANGED <<request, response, whisperKit, kit, audioData, audioSamples, options,
                   stdout, stdoutBuf, stderr, exitCode>>
    /\ UNCHANGED <<live, active>>
    /\ UNCHANGED screens

(* while let line = readLine(...) { guard !line.isEmpty else { continue }  *)
ReadLine ==
    /\ pc = "read"
    /\ Len(consumed) < MaxLines
    /\ \E line \in Lines :
         /\ consumed' = Append(consumed, line)
         /\ IF line.form = "empty"
            THEN UNCHANGED <<pc, calls>>
            ELSE pc' = "decode" /\ calls' = NoCalls
    /\ UNCHANGED <<request, response, whisperKit, kit, audioData, audioSamples, options,
                   stdout, stdoutBuf, stderr, exitCode>>
    /\ UNCHANGED <<live, active>>
    /\ UNCHANGED screens

(* A variant of StdinClosed that acknowledges the end of input like a      *)
(* shutdown.                                                               *)
StdinClosedAcks ==
    /\ pc = "read"
    /\ SetStreams(Log(WriteResponse(Streams,
            Response("shutdown_ack", Some(TRUE), None, None, None)),
            "stdin closed, exiting"))
    /\ pc' = "done"
    /\ exitCode' = Some(0)
    /\ UNCHANGED <<consumed, request, response, whisperKit, kit, audioData, audioSamples,
                   options, calls>>
    /\ UNCHANGED <<live, active>>
    /\ UNCHANGED screens

(* readLine returns nil: the loop ends, the last log line is written and   *)
(* the top-level code returns.                                             *)
StdinClosed ==
    /\ pc = "read"
    /\ SetStreams(Log(Streams, "stdin closed, exiting"))
    /\ pc' = "done"
    /\ exitCode' = Some(0)
    /\ UNCHANGED <<consumed, request, response, whisperKit, kit, audioData, audioSamples,
                   options, calls>>
    /\ UNCHANGED <<live, active>>
    /\ UNCHANGED screens

(* A variant of InvalidRequest that skips the bad line without a reply.    *)
InvalidRequestSilent ==
    /\ pc = "decode"
    /\ CurrentRequest = None
    /\ pc' = "read"
    /\ UNCHANGED <<consumed, request, response, whisperKit, kit, audioData, audioSamples,
                   options, stdout, stdoutBuf, stderr, exitCode, calls>>
    /\ UNCHANGED <<live, active>>
    /\ UNCHANGED screens

(* The decode guard fails: the error reply is written and the loop         *)
(* continues.                                                              *)
InvalidRequest ==
    /\ pc = "decode"
    /\ CurrentRequest = None
    /\ SetStreams(WriteResponse(Streams,
            Response("error", Some(FALSE), None, Some(Msg("Invalid JSON request")), None)))
    /\ pc' = "read"
    /\ UNCHANGED <<consumed, request, response, whisperKit, kit, audioData, audioSamples,
                   options, exitCode, calls>>
    /\ UNCHANGED <<live, active>>
    /\ UNCHANGED screens

(* A variant of LoadCmd that starts engine.loadModel in a detached task    *)
(* and answers at once, without awaiting it.                               *)
LoadCmdDetached ==
    /\ pc = "decode"
    /\ CurrentRequest # None
    /\ CurrentRequest[1].type = "load"
    /\ request' = CurrentRequest
    /\ IF CurrentRequest[1].model_path = None
       THEN /\ response' = Some(Response("loaded", Some(FALSE), None,
                                         Some(Msg("Missing model_path")), None))
            /\ UNCHANGED <<stdout, stdoutBuf, stderr, calls, live, active>>
       ELSE /\ active' = Enter(active, "loadModel")
            /\ SetStreams(Log(Streams, "Loading model from"))
            /\ calls' = [calls EXCEPT !.construct = @ + 1]
            /\ live' = live \cup {NewKit(CurrentRequest[1].model_path[1])}
            /\ response' = Some(Response("loaded", Some(TRUE), None, None, None))
    /\ pc' = "write"
    /\ UNCHANGED <<consumed, whisperKit, kit, audioData, audioSamples, options, exitCode>>
    /\ UNCHANGED screens

(* A variant of LoadCmd that answers a missing model_path with the         *)
(* generic error type.                                                     *)
LoadCmdGenericError ==
    /\ pc = "decode"
    /\ CurrentRequest # None
    /\ CurrentRequest[1].type = "load"
    /\ request' = CurrentRequest
    /\ IF CurrentRequest[1].model_path = None
       THEN /\ response' = Some(Response("error", Some(FALSE), None,
                                         Some(Msg("Missing model_path")), None))
            /\ pc' = "write"
            /\ UNCHANGED <<stdout, stdoutBuf, stderr, calls, live, active>>
       ELSE /\ active' = Enter(active, "loadModel")
            /\ SetStreams(Log(Streams, "Loading model from"))
            /\ calls' = [calls EXCEPT !.construct = @ + 1]
            /\ live' = live \cup {NewKit(CurrentRequest[1].model_path[1])}
            /\ pc' = "load"
            /\ UNCHANGED response
    /\ UNCHANGED <<consumed, whisperKit, kit, audioData, audioSamples, options, exitCode>>
    /\ UNCHANGED screens

(* case "load": the missing-argument guard, else into engine.loadModel up  *)
(* to its await of WhisperKit(config).                                     *)
LoadCmd ==
    /\ pc = "decode"
    /\ CurrentRequest # None
    /\ CurrentRequest[1].type = "load"
    /\ request' = CurrentRequest
    /\ IF CurrentRequest[1].model_path = None
       THEN /\ response' = Some(Response("loaded", Some(FALSE), None,
                                         Some(Msg("Missing model_path")), None))
            /\ pc' = "write"
            /\ UNCHANGED <<stdout, stdoutBuf, stderr, calls, live, active>>
       ELSE /\ active' = Enter(active, "loadModel")
            /\ SetStreams(Log(Streams, "Loading model from"))
            /\ calls' = [calls EXCEPT !.construct = @ + 1]
            /\ live' = live \cup {NewKit(CurrentRequest[1].model_path[1])}
            /\ pc' = "load"
            /\ UNCHANGED response
    /\ UNCHANGED <<consumed, whisperKit, kit, audioData, audioSamples, options, exitCode>>
    /\ UNCHANGED screens

(* A variant of LoadSucceeds that keeps the replaced model alive (a second *)
(* reference to it is retained) instead of releasing it.                   *)
LoadSucceedsLeaksOld ==
    /\ pc = "load"
    /\ whisperKit' = Some(NewKit(request[1].model_path[1]))
    /\ calls' = [calls EXCEPT !.built = @ + 1]
    /\ SetStreams(Log(Streams, "Model loaded successfully"))
    /\ response' = Some(Response("loaded", Some(TRUE), None, None, None))
    /\ pc' = "write"
    /\ UNCHANGED <<consumed, request, kit, audioData, audioSamples, options, exitCode>>
    /\ live' = live
    /\ active' = Leave(active, "loadModel")
    /\ UNCHANGED screens

(* A variant of LoadSucceeds that drops the model it built instead of      *)
(* assigning it to whisperKit.                                             *)
LoadSucceedsNoAssign ==
    /\ pc = "load"
    /\ calls' = [calls EXCEPT !.built = @ + 1]
    /\ SetStreams(Log(Streams, "Model loaded successfully"))
    /\ response' = Some(Response("loaded", Some(TRUE), None, None, None))
    /\ pc' = "write"
    /\ UNCHANGED <<consumed, request, whisperKit, kit, audioData, audioSamples, options,
                   exitCode>>
    /\ live' = live \ {NewKit(request[1].model_path[1])}
    /\ active' = Leave(active, "loadModel")
    /\ UNCHANGED screens

(* A variant of LoadSucceeds that keeps the handle it already holds.       *)
LoadSucceedsKeepsOld ==
    /\ pc = "load"
    /\ whisperKit' = IF whisperKit = None
                     THEN Some(NewKit(request[1].model_path[1]))
                     ELSE whisperKit
    /\ calls' = [calls EXCEPT !.built = @ + 1]
    /\ SetStreams(Log(Streams, "Model loaded successfully"))
    /\ response' = Some(Response("loaded", Some(TRUE), None, None, None))
    /\ pc' = "write"
    /\ UNCHANGED <<consumed, request, kit, audioData, audioSamples, options, exitCode>>
    /\ live' = IF whisperKit = None THEN live
               ELSE live \ {NewKit(request[1].model_path[1])}
    /\ active' = Leave(active, "loadModel")
    /\ UNCHANGED screens

(* WhisperKit(config) returns: the handle is assigned and loadModel        *)
(* returns.                                                                *)
LoadSucceeds ==
    /\ pc = "load"
    /\ whisperKit' = Some(NewKit(request[1].model_path[1]))
    /\ calls' = [calls EXCEPT !.built = @ + 1]
    /\ SetStreams(Log(Streams, "Model loaded successfully"))
    /\ response' = Some(Response("loaded", Some(TRUE), None, None, None))
    /\ pc' = "write"
    /\ UNCHANGED <<consumed, request, kit, audioData, audioSamples, options, exitCode>>
    /\ live' = Released(live, whisperKit)
    /\ active' = Leave(active, "loadModel")
    /\ UNCHANGED screens

(* A variant of LoadFails whose catch answers with the generic error type. *)
LoadFailsGenericError ==
    /\ pc = "load"
    /\ \E e \in LoadErrors :
         /\ calls' = [calls EXCEPT !.thrown = Some(e)]
         /\ response' = Some(Response("error", Some(FALSE), None, Some(e), None))
    /\ pc' = "write"
    /\ UNCHANGED <<consumed, request, whisperKit, kit, audioData, audioSamples, options,
                   stdout, stdoutBuf, stderr, exitCode>>
    /\ live' = live \ {NewKit(request[1].model_path[1])}
    /\ active' = Leave(active, "loadModel")
    /\ UNCHANGED screens

(* A variant of LoadFails for a loadModel that releases the old handle     *)
(* before it tries to build the new one.                                   *)
LoadFailsClears ==
    /\ pc = "load"
    /\ \E e \in LoadErrors :
         /\ calls' = [calls EXCEPT !.thrown = Some(e)]
         /\ response' = Some(Response("loaded", Some(FALSE), None, Some(e), None))
    /\ whisperKit' = None
    /\ pc' = "write"
    /\ UNCHANGED <<consumed, request, kit, audioData, audioSamples, options,
                   stdout, stdoutBuf, stderr, exitCode>>
    /\ live' = Released(live, whisperKit) \ {NewKit(request[1].model_path[1])}
    /\ active' = Leave(active, "loadModel")
    /\ UNCHANGED screens

(* WhisperKit(config) throws: the assignment never happens and the catch   *)
(* builds the failed reply.                                                *)
LoadFails ==
    /\ pc = "load"
    /\ \E e \in LoadErrors :
         /\ calls' = [calls EXCEPT !.thrown = Some(e)]
         /\ response' = Some(Response("loaded", Some(FALSE), None, Some(e), None))
    /\ pc' = "write"
    /\ UNCHANGED <<consumed, request, whisperKit, kit, audioData, audioSamples, options,
                   stdout, stdoutBuf, stderr, exitCode>>
    /\ live' = live \ {NewKit(request[1].model_path[1])}
    /\ active' = Leave(active, "loadModel")
    /\ UNCHANGED screens

(* A variant of TranscribeCmd that asks whether a model is loaded before   *)
(* it looks for the audio_path.                                            *)
TranscribeCmdLifecycleFirst ==
    /\ pc = "decode"
    /\ CurrentRequest # None
    /\ CurrentRequest[1].type = "transcribe"
    /\ request' = CurrentRequest
    /\ IF whisperKit = None
       THEN /\ response' = Some(Response("transcription", Some(FALSE), None,
                                         Some(Msg("No model loaded")), None))
            /\ pc' = "write"
            /\ UNCHANGED <<kit, stdout, stdoutBuf, stderr, active>>
       ELSE IF CurrentRequest[1].audio_path = None
       THEN /\ response' = Some(Response("transcription", Some(FALSE), None,
                                         Some(Msg("Missing audio_path")), None))
            /\ pc' = "write"
            /\ UNCHANGED <<kit, stdout, stdoutBuf, stderr, active>>
       ELSE /\ active' = Enter(active, "transcribe")
            /\ kit' = whisperKit
            /\ SetStreams(Log(Streams, "Transcribing"))
            /\ pc' = "transcribe"
            /\ UNCHANGED response
    /\ UNCHANGED <<consumed, whisperKit, audioData, audioSamples, options,
                   exitCode, calls, live>>
    /\ UNCHANGED screens

(* A variant of TranscribeCmd whose engine.transcribe has no guard on the  *)
(* handle: it goes on to read the file with no model loaded.               *)
TranscribeCmdNoGuard ==
    /\ pc = "decode"
    /\ CurrentRequest # None
    /\ CurrentRequest[1].type = "transcribe"
    /\ request' = CurrentRequest
    /\ IF CurrentRequest[1].audio_path = None
       THEN /\ response' = Some(Response("transcription", Some(FALSE), None,
                                         Some(Msg("Missing audio_path")), None))
            /\ pc' = "write"
            /\ UNCHANGED <<kit, stdout, stdoutBuf, stderr, active>>
       ELSE /\ active' = Enter(active, "transcribe")
            /\ kit' = whisperKit
            /\ SetStreams(Log(Streams, "Transcribing"))
            /\ pc' = "transcribe"
            /\ UNCHANGED response
    /\ UNCHANGED <<consumed, whisperKit, audioData, audioSamples, options, exitCode, calls,
                   live>>
    /\ UNCHANGED screens

(* case "transcribe": the missing-argument guard, else into                *)
(* engine.transcribe: its guard on the handle, which throws when there is  *)
(* none, and its first log line.                                           *)
TranscribeCmd ==
    /\ pc = "decode"
    /\ CurrentRequest # None
    /\ CurrentRequest[1].type = "transcribe"
    /\ request' = CurrentRequest
    /\ IF CurrentRequest[1].audio_path = None
       THEN /\ response' = Some(Response("transcription", Some(FALSE), None,
                                         Some(Msg("Missing audio_path")), None))
            /\ pc' = "write"
            /\ UNCHANGED <<kit, stdout, stdoutBuf, stderr, active>>
       ELSE IF whisperKit = None
       THEN /\ response' = Some(Response("transcription", Some(FALSE), None,
                                         Some(Msg("No model loaded")), None))
            /\ pc' = "write"
            /\ UNCHANGED <<kit, stdout, stdoutBuf, stderr, active>>
       ELSE /\ active' = Enter(active, "transcribe")
            /\ kit' = whisperKit
            /\ SetStreams(Log(Streams, "Transcribing"))
            /\ pc' = "transcribe"
            /\ UNCHANGED response
    /\ UNCHANGED <<consumed, whisperKit, audioData, audioSamples, options, exitCode, calls,
                   live>>
    /\ UNCHANGED screens

(* A variant of ReadAudioFails that swallows the read error and goes on    *)
(* to inference with an empty buffer.                                      *)
ReadAudioFailsStillInfers ==
    /\ pc = "transcribe"
    /\ \E e \in ReadErrors :
         calls' = [calls EXCEPT !.read = @ + 1, !.infer = @ + 1,
                                !.thrown = Some(e)]
    /\ audioData' = Some(<<>>)
    /\ audioSamples' = <<>>
    /\ options' = Some(BuildOptions(request[1].language))
    /\ pc' = "infer"
    /\ UNCHANGED <<consumed, request, response, whisperKit, kit, stdout,
                   stdoutBuf, stderr, exitCode>>
    /\ UNCHANGED <<live, active>>
    /\ UNCHANGED screens

(* A variant of ReadAudioFails whose catch answers with a fixed message    *)
(* instead of the error's own.                                             *)
ReadAudioFailsGeneric ==
    /\ pc = "transcribe"
    /\ \E e \in ReadErrors :
         /\ calls' = [calls EXCEPT !.read = @ + 1, !.thrown = Some(e)]
         /\ response' = Some(Response("transcription", Some(FALSE), None,
                                      Some(Msg("Transcription failed")), None))
    /\ kit' = None
    /\ pc' = "write"
    /\ UNCHANGED <<consumed, request, whisperKit, audioData, audioSamples, options,
                   stdout, stdoutBuf, stderr, exitCode>>
    /\ active' = Leave(active, "transcribe")
    /\ UNCHANGED live
    /\ UNCHANGED screens

(* Data(contentsOf:) throws: transcribe rethrows and the catch builds the  *)
(* failed reply.                                                           *)
ReadAudioFails ==
    /\ pc = "transcribe"
    /\ \E e \in ReadErrors :
         /\ calls' = [calls EXCEPT !.read = @ + 1, !.thrown = Some(e)]
         /\ response' = Some(Response("transcription", Some(FALSE), None, Some(e), None))
    /\ kit' = None
    /\ pc' = "write"
    /\ UNCHANGED <<consumed, request, whisperKit, audioData, audioSamples, options,
                   stdout, stdoutBuf, stderr, exitCode>>
    /\ active' = Leave(active, "transcribe")
    /\ UNCHANGED live
    /\ UNCHANGED screens

(* Data(contentsOf:) returns the file's bytes: they are decoded, the       *)
(* options are built and kit.transcribe is called and awaited.             *)
ReadAudio ==
    /\ pc = "transcribe"
    /\ \E data \in AudioFiles :
         /\ audioData' = Some(data)
         /\ audioSamples' = DecodeSamples(data)
    /\ options' = Some(BuildOptions(request[1].language))
    /\ calls' = [calls EXCEPT !.read = @ + 1, !.infer = @ + 1]
    /\ pc' = "infer"
    /\ UNCHANGED <<consumed, request, response, whisperKit, kit, stdout,
                   stdoutBuf, stderr, exitCode>>
    /\ UNCHANGED <<live, active>>
    /\ UNCHANGED screens

(* A variant of InferenceFails that drops the model when inference throws. *)
InferenceFailsUnloads ==
    /\ pc = "infer"
    /\ \E e \in InferErrors :
         /\ calls' = [calls EXCEPT !.thrown = Some(e)]
         /\ response' = Some(Response("transcription", Some(FALSE), None, Some(e), None))
    /\ whisperKit' = None
    /\ live' = Released(live, whisperKit)
    /\ kit' = None
    /\ audioData' = None
    /\ audioSamples' = <<>>
    /\ options' = None
    /\ pc' = "write"
    /\ active' = Leave(active, "transcribe")
    /\ UNCHANGED <<consumed, request, stdout, stdoutBuf, stderr, exitCode>>
    /\ UNCHANGED screens

(* kit.transcribe throws.                                                  *)
InferenceFails ==
    /\ pc = "infer"
    /\ \E e \in InferErrors :
         /\ calls' = [calls EXCEPT !.thrown = Some(e)]
         /\ response' = Some(Response("transcription", Some(FALSE), None, Some(e), None))
    /\ kit' = None
    /\ audioData' = None
    /\ audioSamples' = <<>>
    /\ options' = None
    /\ pc' = "write"
    /\ active' = Leave(active, "transcribe")
    /\ UNCHANGED <<consumed, request, whisperKit, stdout, stdoutBuf, stderr,
                   exitCode, live>>
    /\ UNCHANGED screens

(* kit.transcribe returns its segments: the text is joined and trimmed,    *)
(* logged and returned.                                                    *)
InferenceReturns ==
    /\ pc = "infer"
    /\ \E results \in SegmentLists :
         /\ response' = Some(Response("transcription", Some(TRUE),
                                      Some(ResultText(results)), None, None))
         /\ calls' = [calls EXCEPT !.inferred = @ + 1,
                                   !.results = Some(results)]
    /\ SetStreams(Log(Streams, "Transcription result"))
    /\ kit' = None
    /\ audioData' = None
    /\ audioSamples' = <<>>
    /\ options' = None
    /\ pc' = "write"
    /\ active' = Leave(active, "transcribe")
    /\ UNCHANGED <<consumed, request, whisperKit, exitCode, live>>
    /\ UNCHANGED screens

(* A variant of UnloadCmd that refuses to unload when nothing is loaded.   *)
UnloadCmdStrict ==
    /\ pc = "decode"
    /\ CurrentRequest # None
    /\ CurrentRequest[1].type = "unload"
    /\ request' = CurrentRequest
    /\ whisperKit' = None
    /\ IF whisperKit = None
       THEN /\ response' = Some(Response("unloaded", Some(FALSE), None,
                                         Some(Msg("No model loaded")), None))
            /\ UNCHANGED <<stdout, stdoutBuf, stderr>>
       ELSE /\ response' = Some(Response("unloaded", Some(TRUE), None, None, None))
            /\ SetStreams(Log(Streams, "Model unloaded"))
    /\ pc' = "write"
    /\ UNCHANGED <<consumed, kit, audioData, audioSamples, options, exitCode, calls>>
    /\ live' = Released(live, whisperKit)
    /\ UNCHANGED active
    /\ UNCHANGED screens

(* case "unload": engine.unloadModel() and its reply.                      *)
UnloadCmd ==
    /\ pc = "decode"
    /\ CurrentRequest # None
    /\ CurrentRequest[1].type = "unload"
    /\ request' = CurrentRequest
    /\ whisperKit' = None
    /\ SetStreams(Log(Streams, "Model unloaded"))
    /\ response' = Some(Response("unloaded", Some(TRUE), None, None, None))
    /\ pc' = "write"
    /\ UNCHANGED <<consumed, kit, audioData, audioSamples, options, exitCode, calls>>
    /\ live' = Released(live, whisperKit)
    /\ UNCHANGED active
    /\ UNCHANGED screens

(* A variant of HealthCmd whose isModelLoaded tests whisperKit == nil.     *)
HealthCmdInverted ==
    /\ pc = "decode"
    /\ CurrentRequest # None
    /\ CurrentRequest[1].type = "health"
    /\ request' = CurrentRequest
    /\ response' = Some(Response("health", None, None, None,
                                 Some(whisperKit = None)))
    /\ pc' = "write"
    /\ UNCHANGED <<consumed, whisperKit, kit, audioData, audioSamples, options, stdout,
                   stdoutBuf, stderr, exitCode, calls>>
    /\ UNCHANGED <<live, active>>
    /\ UNCHANGED screens

(* case "health": engine.isModelLoaded and its reply.                      *)
HealthCmd ==
    /\ pc = "decode"
    /\ CurrentRequest # None
    /\ CurrentRequest[1].type = "health"
    /\ request' = CurrentRequest
    /\ response' = Some(Response("health", None, None, None,
                                 Some(whisperKit # None)))
    /\ pc' = "write"
    /\ UNCHANGED <<consumed, whisperKit, kit, audioData, audioSamples, options, stdout,
                   stdoutBuf, stderr, exitCode, calls>>
    /\ UNCHANGED <<live, active>>
    /\ UNCHANGED screens

(* A variant of ShutdownCmd without the exit(0): the loop reads on.        *)
ShutdownCmdNoExit ==
    /\ pc = "decode"
    /\ CurrentRequest # None
    /\ CurrentRequest[1].type = "shutdown"
    /\ SetStreams(Log(WriteResponse(Streams,
            Response("shutdown_ack", Some(TRUE), None, None, None)),
            "Shutdown requested, exiting"))
    /\ pc' = "read"
    /\ UNCHANGED <<consumed, request, response, whisperKit, kit, audioData, audioSamples,
                   options, exitCode, calls>>
    /\ UNCHANGED <<live, active>>
    /\ UNCHANGED screens

(* case "shutdown": the acknowledgement is written and flushed, the last   *)
(* log line is written and the process exits.                              *)
ShutdownCmd ==
    /\ pc = "decode"
    /\ CurrentRequest # None
    /\ CurrentRequest[1].type = "shutdown"
    /\ request' = CurrentRequest
    /\ response' = Some(Response("shutdown_ack", Some(TRUE), None, None, None))
    /\ SetStreams(Log(WriteResponse(Streams,
            Response("shutdown_ack", Some(TRUE), None, None, None)),
            "Shutdown requested, exiting"))
    /\ pc' = "done"
    /\ exitCode' = Some(0)
    /\ UNCHANGED <<consumed, whisperKit, kit, audioData, audioSamples, options, calls>>
    /\ UNCHANGED <<live, active>>
    /\ UNCHANGED screens

CommandTypes == {"load", "transcribe", "unload", "health", "shutdown"}

(* A variant of UnknownCmd whose default case skips the line without a     *)
(* reply.                                                                  *)
UnknownCmdIgnored ==
    /\ pc = "decode"
    /\ CurrentRequest # None
    /\ CurrentRequest[1].type \notin CommandTypes
    /\ pc' = "read"
    /\ UNCHANGED <<consumed, request, response, whisperKit, kit, audioData,
                   audioSamples, options, stdout, stdoutBuf, stderr, exitCode,
                   calls>>
    /\ UNCHANGED <<live, active>>
    /\ UNCHANGED screens

(* A variant of UnknownCmd that answers an unknown type like a line that   *)
(* does not parse.                                                         *)
UnknownCmdAsInvalid ==
    /\ pc = "decode"
    /\ CurrentRequest # None
    /\ CurrentRequest[1].type \notin CommandTypes
    /\ request' = CurrentRequest
    /\ response' = Some(Response("error", Some(FALSE), None,
                                 Some(Msg("Invalid JSON request")), None))
    /\ pc' = "write"
    /\ UNCHANGED <<consumed, whisperKit, kit, audioData, audioSamples, options, stdout,
                   stdoutBuf, stderr, exitCode, calls>>
    /\ UNCHANGED <<live, active>>
    /\ UNCHANGED screens

(* default: the reply that names the unknown type.                         *)
UnknownCmd ==
    /\ pc = "decode"
    /\ CurrentRequest # None
    /\ CurrentRequest[1].type \notin CommandTypes
    /\ request' = CurrentRequest
    /\ response' = Some(Response("error", Some(FALSE), None,
                                 Some(<<"Unknown command: ", CurrentRequest[1].type>>),
                                 None))
    /\ pc' = "write"
    /\ UNCHANGED <<consumed, whisperKit, kit, audioData, audioSamples, options, stdout,
                   stdoutBuf, stderr, exitCode, calls>>
    /\ UNCHANGED <<live, active>>
    /\ UNCHANGED screens

(* The write after the switch; the loop then goes back to readLine.        *)
WriteReply ==
    /\ pc = "write"
    /\ SetStreams(WriteResponse(Streams, response[1]))
    /\ request' = None
    /\ response' = None
    /\ pc' = "read"
    /\ UNCHANGED <<consumed, whisperKit, kit, audioData, audioSamples, options, exitCode, calls>>
    /\ UNCHANGED <<live, active>>
    /\ UNCHANGED screens

Next ==
    \/ ReadLine
    \/ StdinClosed
    \/ InvalidRequest
    \/ LoadCmd
    \/ LoadSucceeds
    \/ LoadFails
    \/ TranscribeCmd
    \/ ReadAudioFails
    \/ ReadAudio
    \/ InferenceFails
    \/ InferenceReturns
    \/ UnloadCmd
    \/ HealthCmd
    \/ ShutdownCmd
    \/ UnknownCmd
    \/ WriteReply

Spec == Init /\ [][Next]_vars

----------------------------------------------------------------------------
(* Progress.  The loop is a single thread that is always either at        *)
(* readLine, in one of its own steps or awaiting one engine operation, so  *)
(* at most one kind of step is possible at a time: the loop's own steps    *)
(* are taken when they can be, every awaited engine operation returns or   *)
(* throws, and readLine returns, with a line or, the input being finite,   *)
(* with its end.                                                           *)
Fairness == WF_vars(Next)

LiveSpec == Spec /\ Fairness

----------------------------------------------------------------------------
(* Reading the history: what the lines read and the replies written say,   *)
(* stated on the wire format alone.                                        *)

(* A line that parses as a command.                                        *)
WellFormedCommand(line) ==
    /\ line.form = "object"
    /\ "type" \in DOMAIN line.members
    /\ line.members["type"].t = "str"
    /\ \A k \in {"model_path", "audio_path", "language"} :
         k \in DOMAIN line.members => line.members[k].t \in {"str", "null"}

CmdType(line) ==
    IF WellFormedCommand(line) THEN line.members["type"].v ELSE "malformed"

HasString(line, k) ==
    /\ WellFormedCommand(line)
    /\ k \in DOMAIN line.members
    /\ line.members[k].t = "str"

InFlight == pc \in {"decode", "load", "transcribe", "infer", "write"}

BetweenCommands == pc \in {"read", "decode", "done"}

Written == stdout \o stdoutBuf

ReplyOf(k) == stdout[k].members

LoadedOk == [type |-> "loaded", success |-> TRUE]

(* The k-th command was a load answered with success.                      *)
IsLoadOk(k) == CmdType(Cmds[k]) = "load" /\ ReplyOf(k) = LoadedOk

(* The k-th command was a load with a path, answered with a load error.    *)
IsLoadFailed(k) ==
    /\ CmdType(Cmds[k]) = "load"
    /\ HasString(Cmds[k], "model_path")
    /\ ReplyOf(k).success = FALSE

(* The last successful load among the first k commands that no unload      *)
(* followed, or 0.                                                         *)
LastLoad(k) ==
    LET S == { j \in 1..k : /\ IsLoadOk(j)
                            /\ \A i \in (j + 1)..k : CmdType(Cmds[i]) # "unload" }
    IN  IF S = {} THEN 0 ELSE CHOOSE j \in S : \A i \in S : i <= j

(* The handle the engine should hold once the first k commands are         *)
(* answered.                                                               *)
ModelAfter(k) ==
    IF LastLoad(k) = 0 THEN None
    ELSE Some([modelFolder |-> Cmds[LastLoad(k)].members["model_path"].v,
               id |-> LastLoad(k)])

----------------------------------------------------------------------------
(* C1: every non-empty line read is answered by exactly one reply line:    *)
(* the replies written number the non-empty lines read, less the one being *)
(* processed, and nothing printed is left unflushed between steps.         *)
C1_OneReplyPerLine ==
    /\ Len(stdout) = Len(Cmds) - (IF InFlight THEN 1 ELSE 0)
    /\ stdoutBuf = <<>>

(* Three lines answered: a malformed one, an unknown command and a         *)
(* well-formed one.                                                        *)
C1_Witness ==
    /\ pc = "read"
    /\ Len(stdout) = 3
    /\ \E i, j, k \in 1..3 :
         /\ CmdType(Cmds[i]) = "malformed"
         /\ CmdType(Cmds[j]) = "bogus"
         /\ CmdType(Cmds[k]) = "health"

(* The reply type each kind of line is answered with.                      *)
ExpectedReplyType(line) ==
    CASE CmdType(line) = "load" -> "loaded"
      [] CmdType(line) = "transcribe" -> "transcription"
      [] CmdType(line) = "unload" -> "unloaded"
      [] CmdType(line) = "health" -> "health"
      [] CmdType(line) = "shutdown" -> "shutdown_ack"
      [] OTHER -> "error"

C2_Paired ==
    /\ Len(stdout) <= Len(Cmds)
    /\ \A k \in 1..Len(stdout) : ReplyOf(k).type = ExpectedReplyType(Cmds[k])

C2_Step ==
    /\ consumed' # consumed =>
         /\ pc = "read"
         /\ Len(stdout) = Len(Cmds)
         /\ \E l \in Lines : consumed' = Append(consumed, l)
    /\ pc \in {"load", "transcribe", "infer"} =>
         /\ consumed' = consumed
         /\ stdout' = stdout
    /\ stdout' # stdout =>
         /\ Len(stdout') = Len(stdout) + 1
         /\ SubSeq(stdout', 1, Len(stdout)) = stdout
         /\ Len(stdout') = Len(Cmds)
         /\ consumed' = consumed

(* C2: commands are processed in order and one at a time: the k-th reply   *)
(* has the type of the reply to the k-th non-empty line, a line is read    *)
(* only when every earlier line is answered, a reply is appended only for  *)
(* the line read last, and while a load or a transcribe is in progress no  *)
(* line is read and no reply is written.                                   *)
C2_InOrder == [](C2_Paired) /\ [][C2_Step]_vars

(* A transcribe in progress behind two answered commands.                  *)
C2_Witness ==
    /\ pc = "infer"
    /\ Len(stdout) = 2
    /\ Len(Cmds) = 3

(* The acknowledgement, and where shutdowns and acknowledgements stand.    *)
ShutdownAck == [type |-> "shutdown_ack", success |-> TRUE]

ShutdownLines == { k \in 1..Len(Cmds) : CmdType(Cmds[k]) = "shutdown" }

AckLines == { k \in 1..Len(stdout) : ReplyOf(k).type = "shutdown_ack" }

(* C3: a shutdown command is answered in its turn and ends the process:    *)
(* once the first shutdown is read nothing further is read; every earlier  *)
(* line has its reply before the shutdown is looked at; processing it      *)
(* writes one shutdown_ack with success true as the last line of the       *)
(* output and exits with code 0; no other reply is a shutdown_ack.         *)
C3_ShutdownInOrder ==
    /\ ShutdownLines # {} =>
         /\ ShutdownLines = {Len(Cmds)}
         /\ Last(consumed) = Cmds[Len(Cmds)]
         /\ pc \in {"decode", "done"}
         /\ pc = "decode" => Len(stdout) = Len(Cmds) - 1 /\ AckLines = {}
         /\ pc = "done" =>
              /\ Len(stdout) = Len(Cmds)
              /\ ReplyOf(Len(Cmds)) = ShutdownAck
              /\ AckLines = {Len(Cmds)}
              /\ stdoutBuf = <<>>
              /\ exitCode = Some(0)
    /\ ShutdownLines = {} => AckLines = {}
    /\ exitCode # None <=> pc = "done"

(* A load and a transcription answered, then the shutdown acknowledged.    *)
C3_Witness ==
    /\ pc = "done"
    /\ Len(stdout) = 3
    /\ ReplyOf(1) = LoadedOk
    /\ ReplyOf(2).type = "transcription"
    /\ ReplyOf(2).success = TRUE
    /\ ReplyOf(3) = ShutdownAck

(* The fixed reply to a line that does not parse.                          *)
InvalidJsonReply ==
    [type |-> "error", success |-> FALSE, error |-> Msg("Invalid JSON request")]

C4_Replies ==
    \A k \in 1..Len(stdout) :
        CmdType(Cmds[k]) = "malformed" => ReplyOf(k) = InvalidJsonReply

C4_Step ==
    (pc = "decode" /\ CmdType(Last(consumed)) = "malformed") =>
        /\ pc' = "read"
        /\ stdout' = Append(stdout, Obj(InvalidJsonReply))
        /\ UNCHANGED <<consumed, whisperKit, kit, audioData, audioSamples, options,
                       exitCode, calls>>
        /\ calls = NoCalls

(* C4: a non-empty line that does not parse as a command is answered by    *)
(* the one reply {type error, success false, error "Invalid JSON           *)
(* request"}, changes nothing in the engine, and the loop reads on.        *)
C4_MalformedLine == [](C4_Replies) /\ [][C4_Step]_vars

(* A malformed line between a load and a health that still reports the     *)
(* model.                                                                  *)
C4_Witness ==
    /\ Len(stdout) = 3
    /\ ReplyOf(1) = LoadedOk
    /\ ReplyOf(2) = InvalidJsonReply
    /\ ReplyOf(3) = [type |-> "health", model_loaded |-> TRUE]

(* What a reply line and a diagnostic line look like.                      *)
ReplyTypes == {"loaded", "transcription", "unloaded", "health", "shutdown_ack", "error"}

Diagnostics ==
    { "WhisperKit sidecar started, waiting for commands...",
      "Loading model from", "Model loaded successfully", "Transcribing",
      "Transcription result", "Model unloaded", "Shutdown requested, exiting",
      "stdin closed, exiting" }

WellFormedReply(line) ==
    /\ line.form = "object"
    /\ DOMAIN line.members \subseteq ResponseKeys
    /\ "type" \in DOMAIN line.members
    /\ line.members["type"] \in ReplyTypes
    /\ "success" \in DOMAIN line.members => line.members["success"] \in BOOLEAN
    /\ "model_loaded" \in DOMAIN line.members =>
           line.members["model_loaded"] \in BOOLEAN

(* The diagnostics the commands answered so far must have left.            *)
DiagnosticsDue ==
    Cardinality({ k \in 1..Len(stdout) :
                    \/ CmdType(Cmds[k]) = "unload"
                    \/ CmdType(Cmds[k]) = "shutdown"
                    \/ (CmdType(Cmds[k]) = "load" /\ HasString(Cmds[k], "model_path")) })

(* C5: standard output carries only replies: every line printed to it is   *)
(* one well-formed reply object.  Every diagnostic is a tagged text line   *)
(* on standard error: the banner first, and the exit notice last once the  *)
(* process has ended.                                                      *)
C5_StdoutOnlyReplies ==
    /\ \A i \in 1..Len(Written) : WellFormedReply(Written[i])
    /\ \A i \in 1..Len(stderr) :
         stderr[i].form = "text" /\ stderr[i].msg \in Diagnostics
    /\ stderr[1].msg = "WhisperKit sidecar started, waiting for commands..."
    /\ Len(stderr) >= 1 + DiagnosticsDue
    /\ pc = "done" =>
         Last(stderr).msg \in {"Shutdown requested, exiting", "stdin closed, exiting"}

(* A model loaded, a transcription made and the input closed: five         *)
(* diagnostics behind the banner, two replies.                             *)
C5_Witness ==
    /\ pc = "done"
    /\ Len(stdout) = 2
    /\ Len(stderr) = 6
    /\ stderr[2].msg = "Loading model from"
    /\ stderr[5].msg = "Transcription result"
    /\ stderr[6].msg = "stdin closed, exiting"

(* The k-th command is a transcribe read with no model loaded.             *)
TranscribeWhileUnloaded(k) ==
    /\ CmdType(Cmds[k]) = "transcribe"
    /\ ModelAfter(k - 1) = None

(* C6: a transcribe read while the engine holds no model (no load          *)
(* succeeded before it, or an unload followed the last one that did) is    *)
(* answered by a failed transcription reply, reads no audio file,          *)
(* decodes nothing, calls no inference and leaves the engine unloaded.     *)
C6_UnloadedTranscribe ==
    \A k \in 1..Len(Cmds) :
        TranscribeWhileUnloaded(k) =>
            /\ k <= Len(stdout) =>
                 /\ ReplyOf(k).type = "transcription"
                 /\ ReplyOf(k).success = FALSE
                 /\ "text" \notin DOMAIN ReplyOf(k)
            /\ k = Len(Cmds) =>
                 /\ calls.read = 0
                 /\ calls.infer = 0
                 /\ pc \notin {"transcribe", "infer"}
                 /\ audioSamples = <<>>
                 /\ options = None
                 /\ whisperKit = None

(* A model loaded, unloaded, and a transcribe with a path then refused.    *)
C6_Witness ==
    /\ pc = "read"
    /\ Len(stdout) = 3
    /\ ReplyOf(1) = LoadedOk
    /\ CmdType(Cmds[2]) = "unload"
    /\ HasString(Cmds[3], "audio_path")
    /\ ReplyOf(3) = [type |-> "transcription", success |-> FALSE,
                     error |-> Msg("No model loaded")]

(* C7: when the model construction of a load succeeds, the reply is        *)
(* loaded with success true and the engine holds the model built from the  *)
(* command's path, whatever it held before; and every health command       *)
(* answered while no unload has followed a successful load reports         *)
(* model_loaded true.                                                      *)
C7_LoadSucceeds ==
    /\ calls.built = 1 =>
         /\ whisperKit = Some([modelFolder |-> Last(Cmds).members["model_path"].v,
                               id |-> Len(Cmds)])
         /\ pc \in {"write", "read", "done"}
         /\ pc = "write" => EncodeResponse(response[1]).members = LoadedOk
         /\ pc # "write" => ReplyOf(Len(Cmds)) = LoadedOk
    /\ \A k \in 1..Len(stdout) :
         (CmdType(Cmds[k]) = "health" /\ ModelAfter(k - 1) # None) =>
             ReplyOf(k) = [type |-> "health", model_loaded |-> TRUE]

(* Two loads in a row, the second onto a loaded engine, then a health.     *)
C7_Witness ==
    /\ Len(stdout) = 3
    /\ ReplyOf(1) = LoadedOk
    /\ ReplyOf(2) = LoadedOk
    /\ ReplyOf(3) = [type |-> "health", model_loaded |-> TRUE]

(* The step in which a model construction fails, and the states after it.  *)
C8_FailStep ==
    (pc = "load" /\ pc' # "load" /\ calls'.built = 0) =>
        /\ whisperKit' = whisperKit
        /\ pc' = "write"
        /\ \E e \in LoadErrors :
             EncodeResponse(response'[1]).members =
                 [type |-> "loaded", success |-> FALSE, error |-> e]

C8_After ==
    (Len(stdout) >= 1 /\ IsLoadFailed(Len(stdout))) =>
        /\ BetweenCommands => whisperKit = ModelAfter(Len(stdout) - 1)
        /\ pc \in {"transcribe", "infer"} =>
             /\ kit = ModelAfter(Len(stdout) - 1)
             /\ whisperKit = kit

(* C8: when the model construction of a load fails, the reply is loaded    *)
(* with success false and the error, and the engine is left as it was: it  *)
(* holds what the commands before the load left it, and a transcribe that  *)
(* follows runs on that same model.                                        *)
C8_LoadFails == [](C8_After) /\ [][C8_FailStep]_vars

(* A load that succeeds, a load that fails, and a transcribe running on    *)
(* the first load's model.                                                 *)
C8_Witness ==
    /\ pc = "infer"
    /\ Len(stdout) = 2
    /\ ReplyOf(1) = LoadedOk
    /\ IsLoadFailed(2)
    /\ kit = Some([modelFolder |-> Cmds[1].members["model_path"].v, id |-> 1])

(* C9: a transcribe runs on the model of the most recent successful load:  *)
(* the handle it binds, and the one the engine holds between commands, is  *)
(* the one built by the last load answered with success; an earlier        *)
(* handle is never the one in use after a later load succeeded.            *)
C9_LatestModel ==
    /\ BetweenCommands => whisperKit = ModelAfter(Len(stdout))
    /\ pc \in {"transcribe", "infer"} =>
         /\ kit # None
         /\ kit = ModelAfter(Len(stdout))
         /\ whisperKit = kit

(* Two successful loads of different folders, then a transcribe running on *)
(* the second.                                                             *)
C9_Witness ==
    /\ pc = "infer"
    /\ Len(stdout) = 2
    /\ ReplyOf(1) = LoadedOk
    /\ ReplyOf(2) = LoadedOk
    /\ Cmds[1].members["model_path"] # Cmds[2].members["model_path"]
    /\ kit = Some([modelFolder |-> Cmds[2].members["model_path"].v, id |-> 2])

(* The reply to an unload.                                                 *)
UnloadedOk == [type |-> "unloaded", success |-> TRUE]

(* C10: unload never fails and is idempotent: every unload is answered     *)
(* unloaded with success true, whatever the engine held, and leaves the    *)
(* engine unloaded; a second unload right after does the same.             *)
C10_UnloadIdempotent ==
    /\ \A k \in 1..Len(stdout) : CmdType(Cmds[k]) = "unload" => ReplyOf(k) = UnloadedOk
    /\ (pc = "write" /\ CmdType(Last(Cmds)) = "unload") =>
         /\ whisperKit = None
         /\ EncodeResponse(response[1]).members = UnloadedOk
    /\ (BetweenCommands /\ Len(stdout) >= 1 /\ CmdType(Cmds[Len(stdout)]) = "unload") =>
         whisperKit = None

(* A model loaded, then two unloads in a row, both answered.               *)
C10_Witness ==
    /\ pc = "read"
    /\ Len(stdout) = 3
    /\ ReplyOf(1) = LoadedOk
    /\ ReplyOf(2) = UnloadedOk
    /\ ReplyOf(3) = UnloadedOk
    /\ whisperKit = None

(* The engine and the counters are left alone by a step.                   *)
EngineUntouched == UNCHANGED <<whisperKit, kit, audioData, audioSamples, options, live, active, calls>>

(* The reply to a health command.                                          *)
HealthReply(loaded) == [type |-> "health", model_loaded |-> loaded]

C11_Replies ==
    \A k \in 1..Len(stdout) :
        CmdType(Cmds[k]) = "health" => ReplyOf(k) = HealthReply(ModelAfter(k - 1) # None)

C11_Step ==
    (pc = "decode" /\ CmdType(Last(consumed)) = "health") =>
        /\ pc' = "write"
        /\ EngineUntouched
        /\ UNCHANGED <<consumed, stdout, stdoutBuf, exitCode>>
        /\ EncodeResponse(response'[1]).members = HealthReply(whisperKit # None)

(* C11: a health command is answered with model_loaded true exactly when   *)
(* a load succeeded before it and no unload followed that load, so false   *)
(* before any load; the reply is never a failure and the query changes     *)
(* nothing in the engine.                                                  *)
C11_Health == [](C11_Replies) /\ [][C11_Step]_vars

(* A health before any load reports false, and one after a load true.      *)
C11_Witness ==
    /\ Len(stdout) = 3
    /\ ReplyOf(1) = HealthReply(FALSE)
    /\ ReplyOf(2) = LoadedOk
    /\ ReplyOf(3) = HealthReply(TRUE)

(* A command without the field it needs, and the reply it gets.            *)
MissingField(line) ==
    CASE CmdType(line) = "load" /\ ~HasString(line, "model_path") -> "model_path"
      [] CmdType(line) = "transcribe" /\ ~HasString(line, "audio_path") -> "audio_path"
      [] OTHER -> "none"

MissingReply(line) ==
    IF MissingField(line) = "model_path"
    THEN [type |-> "loaded", success |-> FALSE, error |-> Msg("Missing model_path")]
    ELSE [type |-> "transcription", success |-> FALSE,
          error |-> Msg("Missing audio_path")]

C12_Replies ==
    \A k \in 1..Len(stdout) :
        MissingField(Cmds[k]) # "none" => ReplyOf(k) = MissingReply(Cmds[k])

C12_Step ==
    (pc = "decode" /\ MissingField(Last(consumed)) # "none") =>
        /\ pc' = "write"
        /\ EngineUntouched
        /\ calls = NoCalls
        /\ UNCHANGED <<consumed, stdout, stdoutBuf, stderr, exitCode>>
        /\ EncodeResponse(response'[1]).members = MissingReply(Last(consumed))

(* C12: a load without model_path is answered loaded, success false,       *)
(* "Missing model_path", and a transcribe without audio_path               *)
(* transcription, success false, "Missing audio_path": a failed reply of   *)
(* the command's own type, built without calling the engine and without    *)
(* changing its state.                                                     *)
C12_MissingArgument == [](C12_Replies) /\ [][C12_Step]_vars

(* A model loaded, then both commands without their field answered, the    *)
(* model still held.                                                       *)
C12_Witness ==
    /\ pc = "read"
    /\ Len(stdout) = 3
    /\ ReplyOf(1) = LoadedOk
    /\ \E i, j \in 2..3 :
         /\ MissingField(Cmds[i]) = "model_path"
         /\ MissingField(Cmds[j]) = "audio_path"
    /\ whisperKit # None

(* C13: the reply type depends on the command type alone: load gives       *)
(* loaded, transcribe transcription, unload unloaded, health health,       *)
(* shutdown shutdown_ack, a line that does not parse or an unknown type    *)
(* error; this holds of every reply written and of the reply about to be   *)
(* written, whether the command succeeded or failed.                       *)
C13_ReplyType ==
    /\ \A k \in 1..Len(stdout) :
         /\ "type" \in DOMAIN ReplyOf(k)
         /\ ReplyOf(k).type = ExpectedReplyType(Cmds[k])
    /\ pc = "write" =>
         EncodeResponse(response[1]).members.type = ExpectedReplyType(Last(Cmds))

(* A load that failed, a load that succeeded and a transcribe that failed  *)
(* on its file, each answered with its own type.                           *)
C13_Witness ==
    /\ Len(stdout) = 3
    /\ ReplyOf(1).type = "loaded" /\ ReplyOf(1).success = FALSE
    /\ ReplyOf(2) = LoadedOk
    /\ ReplyOf(3).type = "transcription" /\ ReplyOf(3).success = FALSE

(* The types the switch knows, and the reply to any other.                 *)
KnownTypes == {"load", "transcribe", "unload", "health", "shutdown"}

UnknownType(line) == CmdType(line) \notin KnownTypes \cup {"malformed"}

UnknownReply(line) ==
    [type |-> "error", success |-> FALSE,
     error |-> <<"Unknown command: ", CmdType(line)>>]

C14_Replies ==
    \A k \in 1..Len(stdout) :
        UnknownType(Cmds[k]) => ReplyOf(k) = UnknownReply(Cmds[k])

C14_Step ==
    (pc = "decode" /\ UnknownType(Last(consumed))) =>
        /\ pc' = "write"
        /\ EngineUntouched
        /\ calls = NoCalls
        /\ UNCHANGED <<consumed, stdout, stdoutBuf, stderr, exitCode>>
        /\ EncodeResponse(response'[1]).members = UnknownReply(Last(consumed))

(* C14: a line that parses but whose type is none of load, transcribe,     *)
(* unload, health, shutdown is answered with one error reply, success      *)
(* false, naming the type (not "Invalid JSON request"), built without      *)
(* touching the engine; the loop then writes it and reads on.              *)
C14_UnknownCommand == [](C14_Replies) /\ [][C14_Step]_vars

(* An unknown command between a load and a health that still reports the   *)
(* model.                                                                  *)
C14_Witness ==
    /\ Len(stdout) = 3
    /\ ReplyOf(1) = LoadedOk
    /\ ReplyOf(2) = [type |-> "error", success |-> FALSE,
                     error |-> <<"Unknown command: ", "bogus">>]
    /\ ReplyOf(3) = HealthReply(TRUE)

----------------------------------------------------------------------------
(* Model objects in memory.                                                *)

(* The handle the engine's field holds, and the model a load in progress   *)
(* is constructing, read from the line being processed.                    *)
Held == IF whisperKit = None THEN {} ELSE {whisperKit[1]}

UnderConstruction ==
    IF pc = "load"
    THEN {[modelFolder |-> Last(Cmds).members["model_path"].v, id |-> Len(Cmds)]}
    ELSE {}

(* C15 as stated: at most one model handle exists in every reachable       *)
(* state, the intermediate states of a load issued while a model is        *)
(* loaded included; no state holds both the old and the new handle.        *)
C15_AtMostOneHandle == Cardinality(live) <= 1

(* C15, amended: the engine's field holds at most one handle at any time,  *)
(* and outside a load the model it holds is the only one in memory; while  *)
(* a load issued with a model already loaded is constructing the new       *)
(* model, the previous one is still held beside it, and it is released     *)
(* only when the new model is assigned (or kept, and the new one           *)
(* discarded, when construction fails).                                    *)
C15_OneHandleAtRest ==
    /\ Len(whisperKit) <= 1
    /\ live = Held \cup UnderConstruction
    /\ pc # "load" => Cardinality(live) <= 1
    /\ pc = "load" => Cardinality(live) = Cardinality(Held) + 1

(* A second load is constructing its model while the model of the first   *)
(* is still held: two models in memory, one handle in the field.           *)
C15_Witness ==
    /\ pc = "load"
    /\ Len(Cmds) = 2
    /\ ReplyOf(1) = LoadedOk
    /\ whisperKit = Some([modelFolder |-> Cmds[1].members["model_path"].v, id |-> 1])
    /\ live = {[modelFolder |-> Cmds[1].members["model_path"].v, id |-> 1],
               [modelFolder |-> Cmds[2].members["model_path"].v, id |-> 2]}

----------------------------------------------------------------------------
(* Engine operations in progress.                                          *)

C16_Exclusive ==
    /\ Len(active) <= 1
    /\ (active = <<"loadModel">>) <=> (pc = "load")
    /\ (active = <<"transcribe">>) <=> (pc \in {"transcribe", "infer"})
    /\ pc \in {"transcribe", "infer"} =>
         /\ kit # None
         /\ kit = whisperKit
         /\ kit[1] \in live

C16_Step ==
    /\ Len(active') > Len(active) => active = <<>>
    /\ active # <<>> =>
         \/ UNCHANGED <<whisperKit, live>>
         \/ active = <<"loadModel">> /\ active' = <<>>

(* C16: at most one engine operation is in progress in any state; an       *)
(* operation starts only when none is in progress; while a transcribe is   *)
(* in progress the handle it uses is the engine's current one and that     *)
(* model is alive, and the handle changes only as the completion of the    *)
(* one load in progress.                                                   *)
C16_MutualExclusion == [](C16_Exclusive) /\ [][C16_Step]_vars

(* An inference running on the model of the second of two loads.           *)
C16_Witness ==
    /\ pc = "infer"
    /\ active = <<"transcribe">>
    /\ Len(stdout) = 2
    /\ ReplyOf(1) = LoadedOk
    /\ ReplyOf(2) = LoadedOk
    /\ kit = whisperKit
    /\ kit[1].id = 2

----------------------------------------------------------------------------
(* Failures of the capabilities.                                           *)

(* The reply a thrown error calls for.                                     *)
FailedReply(e) ==
    [type |-> IF e \in LoadErrors THEN "loaded" ELSE "transcription",
     success |-> FALSE, error |-> e]

C17_Reported ==
    calls.thrown # None =>
        /\ FailedReply(calls.thrown[1]).type = ExpectedReplyType(Last(Cmds))
        /\ pc \in {"write", "read", "done"}
        /\ pc = "write" =>
             /\ exitCode = None
             /\ Len(stdout) = Len(Cmds) - 1
             /\ EncodeResponse(response[1]).members = FailedReply(calls.thrown[1])
        /\ pc # "write" =>
             /\ Len(stdout) = Len(Cmds)
             /\ ReplyOf(Len(Cmds)) = FailedReply(calls.thrown[1])
        /\ pc = "done" => Last(stderr) = [form |-> "text", msg |-> "stdin closed, exiting"]

C17_Step ==
    /\ (calls.thrown = None /\ calls'.thrown # None) =>
         /\ pc' = "write"
         /\ exitCode' = None
         /\ UNCHANGED <<consumed, stdout, stdoutBuf, whisperKit>>
    /\ (pc = "write" /\ calls.thrown # None) =>
         /\ pc' = "read"
         /\ exitCode' = None
         /\ Len(stdout') = Len(stdout) + 1
         /\ stdoutBuf' = <<>>

(* C17: when model construction, the audio-file read or inference throws,  *)
(* the command is answered with loaded (construction) or transcription     *)
(* (read, inference), success false and the thrown message as error; the   *)
(* throwing step does not exit, the reply is written and the loop reads    *)
(* the next line.                                                          *)
C17_FailuresReported == [](C17_Reported) /\ [][C17_Step]_vars

(* A failed load, a successful one, and a transcribe whose inference       *)
(* threw, all answered, the loop reading on.                               *)
C17_Witness ==
    /\ pc = "read"
    /\ exitCode = None
    /\ Len(stdout) = 3
    /\ ReplyOf(1).type = "loaded" /\ ReplyOf(1).success = FALSE
    /\ ReplyOf(1).error \in LoadErrors
    /\ ReplyOf(2) = LoadedOk
    /\ ReplyOf(3).type = "transcription" /\ ReplyOf(3).success = FALSE
    /\ ReplyOf(3).error \in InferErrors
    /\ calls.thrown = Some(ReplyOf(3).error)

----------------------------------------------------------------------------
(* The fields of a reply.                                                  *)

(* C18: every reply line written is an object with a type in which         *)
(* success is present iff the type is not health, model_loaded iff the     *)
(* type is health, text iff it is a transcription with success true, and   *)
(* error iff success is false; a field that does not apply is not a        *)
(* member of the object at all.                                            *)
C18_FieldPresence ==
    \A i \in 1..Len(Written) :
        LET m == Written[i].members IN
        /\ Written[i].form = "object"
        /\ "type" \in DOMAIN m
        /\ DOMAIN m \subseteq {"type", "success", "text", "error", "model_loaded"}
        /\ ("success" \in DOMAIN m) <=> (m.type # "health")
        /\ ("model_loaded" \in DOMAIN m) <=> (m.type = "health")
        /\ ("text" \in DOMAIN m) <=> (m.type = "transcription" /\ m.success = TRUE)
        /\ ("error" \in DOMAIN m) <=> ("success" \in DOMAIN m /\ m.success = FALSE)

(* A load, a transcription with its text and a health reply.               *)
C18_Witness ==
    /\ Len(stdout) = 3
    /\ ReplyOf(1) = LoadedOk
    /\ DOMAIN ReplyOf(2) = {"type", "success", "text"}
    /\ ReplyOf(2).type = "transcription"
    /\ ReplyOf(3) = HealthReply(TRUE)

----------------------------------------------------------------------------
(* Empty lines.                                                            *)

(* The position in the input of the k-th line that is not empty.           *)
NonEmptyAt(k) ==
    CHOOSE i \in 1..Len(consumed) :
        /\ consumed[i].form # "empty"
        /\ Cardinality({ j \in 1..i : consumed[j].form # "empty" }) = k

NonEmptyCount == Cardinality({ j \in 1..Len(consumed) : consumed[j].form # "empty" })

C19_Paired ==
    /\ Len(Written) <= NonEmptyCount
    /\ Len(Written) >= NonEmptyCount - 1
    /\ pc = "read" => Len(stdout) = NonEmptyCount
    /\ \A k \in 1..Len(stdout) :
         ReplyOf(k).type = ExpectedReplyType(consumed[NonEmptyAt(k)])

C19_Step ==
    consumed' = Append(consumed, [form |-> "empty"]) =>
        /\ EngineUntouched
        /\ UNCHANGED <<pc, request, response, stdout, stdoutBuf, stderr, exitCode>>

(* C19: the step that reads an empty line changes nothing but the input    *)
(* position: no reply, no engine call, the engine and both output streams  *)
(* as they were; and the k-th reply is always the reply to the k-th        *)
(* non-empty line, however many empty lines lie between.                   *)
C19_EmptyLineSkipped == [](C19_Paired) /\ [][C19_Step]_vars

(* An empty line between a load and a health, two replies.                 *)
C19_Witness ==
    /\ pc = "read"
    /\ Len(consumed) = 3
    /\ consumed[2] = [form |-> "empty"]
    /\ Len(stdout) = 2
    /\ ReplyOf(1) = LoadedOk
    /\ ReplyOf(2) = HealthReply(TRUE)

----------------------------------------------------------------------------
(* End of input.                                                           *)

C20_Closed ==
    (pc = "done" /\ ShutdownLines = {}) =>
        /\ exitCode = Some(0)
        /\ stdoutBuf = <<>>
        /\ Len(stdout) = Len(Cmds)
        /\ AckLines = {}
        /\ Last(stderr) = [form |-> "text", msg |-> "stdin closed, exiting"]

C20_Step ==
    (pc' = "done" /\ pc # "done" /\ ShutdownLines = {}) =>
        /\ pc = "read"
        /\ Len(stdout) = Len(Cmds)
        /\ UNCHANGED <<consumed, stdout, stdoutBuf>>
        /\ exitCode' = Some(0)

(* C20: when the input ends and no shutdown was read, the process exits    *)
(* with code 0 from the reading position, every command read so far        *)
(* already answered, and the closing step writes nothing to the output:    *)
(* no reply is added and no shutdown_ack appears.                          *)
C20_InputClosed == [](C20_Closed) /\ [][C20_Step]_vars

(* The input closed after three answered commands, none a shutdown.        *)
C20_Witness ==
    /\ pc = "done"
    /\ ShutdownLines = {}
    /\ Len(stdout) = 3
    /\ AckLines = {}
    /\ exitCode = Some(0)

----------------------------------------------------------------------------
(* Audio decoding.                                                         *)

(* The value of the float whose four bytes start at 0-based offset b.      *)
LittleEndian(bytes, b) ==
    bytes[b + 1] + 256 * (bytes[b + 2] + 256 * (bytes[b + 3] + 256 * bytes[b + 4]))

C21_Decoded ==
    /\ pc = "infer" =>
         /\ audioData # None
         /\ calls.thrown = None
         /\ LET L == Len(audioData[1]) IN
            /\ 4 * Len(audioSamples) <= L
            /\ L < 4 * Len(audioSamples) + 4
            /\ \A i \in 0..(Len(audioSamples) - 1) :
                 audioSamples[i + 1] = LittleEndian(audioData[1], 4 * i)
    /\ calls.thrown # None => calls.thrown[1] \in LoadErrors \cup ReadErrors \cup InferErrors

C21_Step ==
    (audioData = None /\ audioData' # None) =>
        /\ pc' = "infer"
        /\ calls'.infer = 1
        /\ calls'.thrown = None
        /\ UNCHANGED response

(* C21: once the audio file has been read, whatever its length L, the      *)
(* buffer handed to inference has floor(L/4) samples, sample i made of     *)
(* bytes 4i..4i+3 in little-endian order, the bytes after the last whole   *)
(* sample dropped; the read goes on to inference without an error, and     *)
(* the only errors there are come from the load, the file read or the      *)
(* inference, never from the length.                                       *)
C21_AudioTruncated == [](C21_Decoded) /\ [][C21_Step]_vars

(* A file of two whole samples and one stray byte, decoded to two samples. *)
C21_Witness ==
    /\ pc = "infer"
    /\ Len(audioData[1]) = 9
    /\ Len(audioSamples) = 2
    /\ audioSamples[2] = LittleEndian(audioData[1], 4)

(* A file shorter than one sample, decoded to no samples and inferred.     *)
C21_ShortWitness ==
    /\ pc = "infer"
    /\ Len(audioData[1]) = 3
    /\ audioSamples = <<>>

----------------------------------------------------------------------------
(* The engine's state machine.                                             *)

(* The handle a load of the line being processed installs.                 *)
HandleOfLoad ==
    [modelFolder |-> Last(Cmds).members["model_path"].v, id |-> Len(Cmds)]

C22_Step ==
    /\ whisperKit' # whisperKit =>
         \/ /\ pc = "load"
            /\ CmdType(Last(Cmds)) = "load"
            /\ whisperKit' = Some(HandleOfLoad)
            /\ EncodeResponse(response'[1]).members = LoadedOk
         \/ /\ pc = "decode"
            /\ CmdType(Last(Cmds)) = "unload"
            /\ whisperKit' = None
    /\ (pc = "decode" /\ CmdType(Last(Cmds)) \notin {"unload"}) => UNCHANGED whisperKit
    /\ pc \in {"read", "transcribe", "infer", "write"} => UNCHANGED whisperKit
    /\ (pc = "load" /\ calls'.thrown # None) => UNCHANGED whisperKit

C22_State ==
    /\ pc = "write" =>
         (EncodeResponse(response[1]).members = LoadedOk => whisperKit = Some(HandleOfLoad))
    /\ BetweenCommands =>
         (whisperKit # None <=> \E k \in 1..Len(stdout) :
              /\ IsLoadOk(k)
              /\ \A j \in (k + 1)..Len(stdout) : CmdType(Cmds[j]) # "unload")

(* C22: the engine's handle changes in two kinds of step only, the         *)
(* completion of a successful load, which installs the new handle, and an  *)
(* unload, which clears it; reading a line (empty or not), a malformed     *)
(* line, an unknown command, a command missing its argument, health, a     *)
(* failed load and every step of a transcribe, whatever its outcome,       *)
(* leave it as it was, so a model is loaded exactly when some load         *)
(* succeeded and no unload followed it.                                    *)
C22_StateMachine == [](C22_State) /\ [][C22_Step]_vars

(* A model loaded, an inference on it that threw, and a health that still  *)
(* reports the model.                                                      *)
C22_Witness ==
    /\ pc = "read"
    /\ Len(stdout) = 3
    /\ ReplyOf(1) = LoadedOk
    /\ ReplyOf(2).type = "transcription"
    /\ ReplyOf(2).success = FALSE
    /\ ReplyOf(2).error \in InferErrors
    /\ ReplyOf(3) = HealthReply(TRUE)
    /\ whisperKit = Some([modelFolder |-> Cmds[1].members["model_path"].v, id |-> 1])

----------------------------------------------------------------------------
(* Decoding options.                                                       *)

(* The language a transcribe line asks for: its language field when that   *)
(* is a string other than "auto"; a field that is absent or null carries   *)
(* no value.                                                               *)
LanguageHint(line) ==
    IF /\ "language" \in DOMAIN line.members
       /\ line.members["language"].t = "str"
       /\ line.members["language"].v # "auto"
    THEN <<line.members["language"].v>>
    ELSE <<>>

(* C23: at every inference call the options carry the command's language   *)
(* iff the command has a language value other than "auto", and no          *)
(* language when the field is absent, null or "auto"; skipSpecialTokens    *)
(* and withoutTimestamps are true at every inference call.                 *)
C23_LanguageOption ==
    pc = "infer" =>
        /\ options # None
        /\ options[1].language = LanguageHint(Last(Cmds))
        /\ options[1].skipSpecialTokens = TRUE
        /\ options[1].withoutTimestamps = TRUE

(* An inference called with the language "dv" of its command.              *)
C23_Witness ==
    /\ pc = "infer"
    /\ "language" \in DOMAIN Last(Cmds).members
    /\ Last(Cmds).members["language"] = [t |-> "str", v |-> "dv"]
    /\ options[1].language = <<"dv">>
    /\ options[1].skipSpecialTokens = TRUE

(* An inference called without a language for a command that says "auto".  *)
C23_AutoWitness ==
    /\ pc = "infer"
    /\ "language" \in DOMAIN Last(Cmds).members
    /\ Last(Cmds).members["language"] = [t |-> "str", v |-> "auto"]
    /\ options[1].language = <<>>

----------------------------------------------------------------------------
(* The text of a transcription.                                            *)

(* The segments in order with one space between neighbours.                *)
RECURSIVE SpaceSeparated(_)
SpaceSeparated(segs) ==
    IF Len(segs) = 0 THEN <<>>
    ELSE IF Len(segs) = 1 THEN segs[1]
    ELSE SpaceSeparated(SubSeq(segs, 1, Len(segs) - 1)) \o <<" ">> \o segs[Len(segs)]

(* s from its first to its last character that is not whitespace.          *)
Stripped(s) ==
    LET keep == { i \in 1..Len(s) : s[i] \notin {" ", "\t", "\n", "\r"} }
    IN  IF keep = {} THEN <<>>
        ELSE SubSeq(s, CHOOSE i \in keep : \A j \in keep : i <= j,
                       CHOOSE i \in keep : \A j \in keep : j <= i)

(* The reply due when the inference returned segs.                         *)
TranscribedReply(segs) ==
    [type |-> "transcription", success |-> TRUE,
     text |-> Stripped(SpaceSeparated(segs))]

(* C24: when inference returns, the reply is transcription, success true,  *)
(* with the text made of all segment texts in order, one space between     *)
(* neighbours, leading and trailing whitespace of the whole removed and    *)
(* inner whitespace kept; no segments give the empty text, still with      *)
(* success true.                                                           *)
C24_JoinedText ==
    calls.results # None =>
        /\ pc \in {"write", "read", "done"}
        /\ pc = "write" =>
             EncodeResponse(response[1]).members = TranscribedReply(calls.results[1])
        /\ pc # "write" =>
             ReplyOf(Len(stdout)) = TranscribedReply(calls.results[1])

(* Two segments, the second with spaces around it, answered "a  b".        *)
C24_Witness ==
    /\ pc = "read"
    /\ calls.results = << << <<"a">>, <<" ", "b", " ">> >> >>
    /\ ReplyOf(Len(stdout)).text = <<"a", " ", " ", "b">>
    /\ ReplyOf(Len(stdout)).success = TRUE

(* No segments, answered with the empty text and success true.             *)
C24_EmptyWitness ==
    /\ pc = "read"
    /\ calls.results = << <<>> >>
    /\ ReplyOf(Len(stdout)) = [type |-> "transcription", success |-> TRUE, text |-> <<>>]

----------------------------------------------------------------------------
(* Writing and flushing.                                                   *)

C25_Flushed ==
    /\ pc \in {"read", "done"} => stdoutBuf = <<>>
    /\ exitCode # None => stdoutBuf = <<>>
    /\ \A i \in 1..Len(stdout) : stdout[i].form = "object"

C25_Step ==
    /\ Written' # Written =>
         /\ stdoutBuf' = <<>>
         /\ Len(stdout') = Len(stdout) + 1
         /\ SubSeq(stdout', 1, Len(stdout)) = stdout
         /\ pc' \in {"read", "done"}
         /\ pc' = "read" => exitCode' = None
    /\ (pc = "read" /\ consumed' # consumed) => stdoutBuf = <<>>

(* C25: every step that writes a reply, on the malformed-line path, the    *)
(* shutdown path and the path after the switch alike, adds exactly one     *)
(* line to what the host can see and leaves nothing in the output buffer;  *)
(* the buffer is empty whenever the loop reads a line and whenever the     *)
(* process has exited.                                                     *)
C25_WriteThenFlush == [](C25_Flushed) /\ [][C25_Step]_vars

(* A malformed line, a command and a shutdown, each reply flushed, the     *)
(* process exited.                                                         *)
C25_Witness ==
    /\ pc = "done"
    /\ exitCode = <<0>>
    /\ Len(stdout) = 3
    /\ stdoutBuf = <<>>
    /\ ReplyOf(1).type = "error"
    /\ ReplyOf(2).type = "health"
    /\ ReplyOf(3).type = "shutdown_ack"

----------------------------------------------------------------------------
(* Uses of the capabilities per command.                                   *)

C26_Counts ==
    /\ calls.construct <= 1
    /\ calls.read <= 1
    /\ calls.infer <= 1
    /\ calls.construct = 1 =>
         /\ CmdType(Last(Cmds)) = "load"
         /\ calls.read = 0 /\ calls.infer = 0
    /\ calls.read = 1 =>
         /\ CmdType(Last(Cmds)) = "transcribe"
         /\ calls.construct = 0
         /\ ModelAfter(Len(Cmds) - 1) # None
    /\ calls.infer = 1 =>
         /\ calls.read = 1
         /\ calls.thrown = None \/ calls.thrown[1] \in InferErrors
    /\ (calls.thrown # None /\ calls.thrown[1] \in ReadErrors) =>
         /\ calls.read = 1
         /\ calls.infer = 0
         /\ pc \in {"write", "read", "done"}

C26_Step ==
    /\ calls'.infer > calls.infer =>
         /\ pc = "transcribe"
         /\ calls.infer = 0
         /\ calls'.read = 1
         /\ audioData' # None
         /\ calls'.thrown = None
    /\ calls'.construct > calls.construct => calls.construct = 0 /\ pc = "decode"
    /\ calls'.read > calls.read => calls.read = 0 /\ pc = "transcribe"
    /\ (calls'.thrown # None /\ calls.thrown = None) =>
         /\ pc' = "write"
         /\ calls'.construct = calls.construct
         /\ calls'.infer = calls.infer

(* C26: while one command is processed the model is constructed at most    *)
(* once, the audio file read at most once and inference called at most     *)
(* once; construction belongs to a load, the read to a transcribe issued   *)
(* with a model loaded, and inference is called only in the step in which  *)
(* the read returned the file; a throw goes to the reply without a second  *)
(* attempt, so after a failed read no inference has been called.           *)
C26_NoRetry == [](C26_Counts) /\ [][C26_Step]_vars

(* A transcribe on a loaded model whose file read threw: answered failed,  *)
(* one read, no inference.                                                 *)
C26_Witness ==
    /\ pc = "read"
    /\ Len(stdout) = 2
    /\ ReplyOf(1) = LoadedOk
    /\ ReplyOf(2).type = "transcription"
    /\ ReplyOf(2).success = FALSE
    /\ ReplyOf(2).error \in ReadErrors
    /\ calls.read = 1
    /\ calls.infer = 0

----------------------------------------------------------------------------
(* Progress of the loop.                                                   *)

C27_Answered == (Len(stdout) < Len(Cmds)) ~> (Len(stdout) = Len(Cmds))

C27_Terminates == <>(pc = "done" /\ exitCode = <<0>>)

(* While an engine operation is awaited the only steps are that            *)
(* operation's own: nothing is read, nothing is written, the process does  *)
(* not exit.                                                               *)
C27_Blocking ==
    pc \in {"load", "transcribe", "infer"} =>
        /\ pc' \in {"infer", "write"}
        /\ UNCHANGED <<consumed, stdout, stdoutBuf, exitCode>>

(* C27: if every engine operation returns or throws and the input ends,    *)
(* whenever a non-empty line has been read and not yet answered its reply  *)
(* is eventually written, and the process eventually exits with code 0;    *)
(* and while an engine operation has not returned no line is read, no      *)
(* reply written and no exit taken, there being no step that abandons the  *)
(* operation.                                                              *)
C27_Progress == C27_Answered /\ C27_Terminates /\ [][C27_Blocking]_vars

(* A load, a transcription that returned and a shutdown, all answered,     *)
(* the process exited.                                                     *)
C27_Witness ==
    /\ pc = "done"
    /\ exitCode = <<0>>
    /\ Len(stdout) = 3
    /\ ReplyOf(1) = LoadedOk
    /\ ReplyOf(2).type = "transcription"
    /\ ReplyOf(2).success = TRUE
    /\ ReplyOf(3).type = "shutdown_ack"

----------------------------------------------------------------------------
(* The order of the argument check and the lifecycle check.                *)

(* The k-th command is a transcribe, without or with an audio_path.        *)
TranscribeWithoutPath(k) ==
    CmdType(Cmds[k]) = "transcribe" /\ ~HasString(Cmds[k], "audio_path")

LoadWithoutPath(k) ==
    CmdType(Cmds[k]) = "load" /\ ~HasString(Cmds[k], "model_path")

C28_Replies ==
    \A k \in 1..Len(stdout) :
        /\ TranscribeWithoutPath(k) =>
             /\ ReplyOf(k).type = "transcription"
             /\ ReplyOf(k).success = FALSE
             /\ ReplyOf(k).error = <<"Missing audio_path">>
        /\ (CmdType(Cmds[k]) = "transcribe" /\ ~TranscribeWithoutPath(k)
              /\ ModelAfter(k - 1) = None) =>
             ReplyOf(k).error = <<"No model loaded">>
        /\ LoadWithoutPath(k) =>
             /\ ReplyOf(k).error = <<"Missing model_path">>
             /\ (k = Len(stdout) /\ pc = "read") => whisperKit = ModelAfter(k - 1)

C28_Step ==
    (pc = "decode" /\ CmdType(Last(Cmds)) = "load"
       /\ ~HasString(Last(Cmds), "model_path")) =>
        UNCHANGED <<whisperKit, live, active>>

(* C28: a transcribe without audio_path is answered "Missing audio_path"   *)
(* with a model loaded and with none (where a transcribe with a path is    *)
(* answered "No model loaded"), and a load without model_path is answered  *)
(* "Missing model_path" and leaves the handle the engine held, so a model  *)
(* loaded before it is still loaded after it.                              *)
C28_ArgumentBeforeLifecycle == [](C28_Replies) /\ [][C28_Step]_vars

(* A transcribe without audio_path before and after a successful load,     *)
(* both answered "Missing audio_path".                                     *)
C28_Witness ==
    /\ Len(stdout) = 3
    /\ TranscribeWithoutPath(1)
    /\ ReplyOf(1).error = <<"Missing audio_path">>
    /\ ReplyOf(2) = LoadedOk
    /\ TranscribeWithoutPath(3)
    /\ ReplyOf(3).error = <<"Missing audio_path">>
    /\ whisperKit # <<>>

(* A load without model_path after a successful load, and a health that    *)
(* still reports the model.                                                *)
C28_LoadWitness ==
    /\ Len(stdout) = 3
    /\ ReplyOf(1) = LoadedOk
    /\ LoadWithoutPath(2)
    /\ ReplyOf(2) = [type |-> "loaded", success |-> FALSE,
                     error |-> <<"Missing model_path">>]
    /\ ReplyOf(3) = HealthReply(TRUE)

----------------------------------------------------------------------------
(* Which lines are commands.                                               *)

(* A JSON object with a string type whose model_path, audio_path and       *)
(* language are each absent, null or a string.                             *)
Accepted(line) ==
    /\ line.form = "object"
    /\ "type" \in DOMAIN line.members
    /\ line.members["type"].t = "str"
    /\ \A f \in {"model_path", "audio_path", "language"} :
         \/ f \notin DOMAIN line.members
         \/ line.members[f].t = "null"
         \/ line.members[f].t = "str"

C29_Replies ==
    \A k \in 1..Len(stdout) :
        IF Accepted(Cmds[k])
        THEN ReplyOf(k).type = "error" =>
                 ReplyOf(k).error = <<"Unknown command: ", Cmds[k].members["type"].v>>
        ELSE ReplyOf(k) = [type |-> "error", success |-> FALSE,
                           error |-> <<"Invalid JSON request">>]

C29_Step ==
    (pc = "decode" /\ ~Accepted(Last(consumed))) =>
        /\ pc' = "read"
        /\ request' = <<>>
        /\ EngineUntouched
        /\ calls = NoCalls
        /\ Len(stdout') = Len(stdout) + 1

(* C29: a non-empty line is taken as a command iff it is a JSON object     *)
(* with a string type whose model_path, audio_path and language are each   *)
(* absent, null or a string: every other line is answered with the error   *)
(* reply "Invalid JSON request", whatever type it names, with no request   *)
(* decoded and no engine call, and no accepted line is answered with that  *)
(* reply.                                                                  *)
C29_AcceptedLines == [](C29_Replies) /\ [][C29_Step]_vars

(* A load with a numeric model_path and an object with a numeric type,     *)
(* both answered "Invalid JSON request"; a transcribe with a null language *)
(* answered as a transcribe.                                               *)
C29_Witness ==
    /\ Len(stdout) = 3
    /\ \A k \in 1..3 : Cmds[k].form = "object" /\ "type" \in DOMAIN Cmds[k].members
    /\ Cmds[1].members["type"] = [t |-> "str", v |-> "load"]
    /\ "model_path" \in DOMAIN Cmds[1].members
    /\ Cmds[1].members["model_path"] = [t |-> "num"]
    /\ ReplyOf(1).type = "error"
    /\ ReplyOf(1).error = <<"Invalid JSON request">>
    /\ Cmds[2].members["type"] = [t |-> "num"]
    /\ ReplyOf(2).type = "error"
    /\ "language" \in DOMAIN Cmds[3].members
    /\ Cmds[3].members["language"] = [t |-> "null"]
    /\ ReplyOf(3).type = "transcription"

----------------------------------------------------------------------------
(***************************************************************************)
(* The onboarding permissions screen                                       *)
(* (src/components/onboarding-new/ScreenPermissions.tsx), from the moment  *)
(* it is mounted until its continue button calls onNext.  ui is the        *)
(* component: its React state and refs, the promises it is awaiting, and   *)
(* beside them the environment it asks: the platform and what the          *)
(* operating system has granted.  What callbacks still pending do after    *)
(* the screen is gone is not modelled.                                     *)
(***************************************************************************)

sidecarVars == <<pc, consumed, request, response, whisperKit, kit, audioData,
                 audioSamples, options, stdout, stdoutBuf, stderr, exitCode,
                 calls, live, active>>

(* How many requests of one permission, and how many polling ticks, can be *)
(* awaited at once.                                                        *)
MaxPending == 1

MaxTicks == 1

Platforms == {"macos", "linux"}

PermissionNames == {"accessibility", "microphone"}

(* The component after its first render: useState and useRef initial       *)
(* values, nothing awaited, effects not yet run.                           *)
FreshScreen(platform, granted) ==
    [platform         |-> platform,
     os               |-> granted,
     mounted          |-> TRUE,
     effectsRun       |-> FALSE,
     isMacOS          |-> FALSE,
     permissions      |-> [accessibility |-> "needed", microphone |-> "needed"],
     pollingRef       |-> FALSE,
     didInitializeRef |-> FALSE,
     checkInitial     |-> None,
     requests         |-> [accessibility |-> 0, microphone |-> 0],
     ticks            |-> <<>>,
     inits            |-> <<>>,
     initStarted      |-> <<>>,
     attempt          |-> "none",
     toasts           |-> {},
     onNext           |-> 0]

PermInit ==
    /\ SidecarInit
    /\ flow = None /\ selection = None /\ shortcut = None
    /\ ui \in { FreshScreen("macos", g) : g \in [PermissionNames -> BOOLEAN] }
              \cup { FreshScreen("linux", [k \in PermissionNames |-> FALSE]) }

----------------------------------------------------------------------------
(***************************************************************************)
(* The onboarding flow (src/components/onboarding-new/OnboardingFlow.tsx)  *)
(* and the screens it shows one at a time.  flow is the component's state  *)
(* with, beside it, the steps it has rendered, how often nextStep has been *)
(* called and how often it has called onComplete.  Each screen receives as onNext the nextStep of the render  *)
(* that shows it, a closure over that render's step.                       *)
(***************************************************************************)

totalSteps == 5

(* How often the last screen's button is clicked before the host           *)
(* application takes the flow away.                                        *)
MaxCompletions == 1

(* OnboardingFlow after its first render: useState(0).                     *)
FreshFlow == [step |-> 0, shown |-> {0}, calls |-> 0, completed |-> 0]

(* A variant of NextStep that counts the last step as one to advance from. *)
NextStepOffByOne(f, k) ==
    IF k < totalSteps
    THEN [f EXCEPT !.calls = @ + 1, !.step = k + 1, !.shown = @ \cup {k + 1}]
    ELSE [f EXCEPT !.calls = @ + 1, !.completed = @ + 1]

(* A variant of NextStep that takes the last but one step for the last.    *)
NextStepCompletesEarly(f, k) ==
    IF k < totalSteps - 2
    THEN [f EXCEPT !.calls = @ + 1, !.step = k + 1, !.shown = @ \cup {k + 1}]
    ELSE [f EXCEPT !.calls = @ + 1, !.completed = @ + 1]

(* nextStep as closed over step = k: setStep(k + 1) and the render that    *)
(* follows, or onComplete().                                               *)
NextStep(f, k) ==
    IF k < totalSteps - 1
    THEN [f EXCEPT !.calls = @ + 1, !.step = k + 1, !.shown = @ \cup {k + 1}]
    ELSE [f EXCEPT !.calls = @ + 1, !.completed = @ + 1]

(* StepIndicator: one dot per index below totalSteps, the dot of the       *)
(* current step styled active.                                             *)
StepIndicator(total, currentStep) ==
    [index \in 0..(total - 1) |-> index = currentStep]

(* A screen that the flow stops rendering.                                 *)
Unmounted(c) == IF c = None THEN None ELSE [c EXCEPT !.mounted = FALSE]

(* The component the flow renders at step j, across a call of nextStep:    *)
(* kept while the step stays, mounted afresh when the step becomes j,      *)
(* unmounted when the step leaves j.                                       *)
Remount(c, fresh, j) ==
    IF flow = None \/ flow'.step = flow.step THEN c
    ELSE IF flow'.step = j THEN fresh
    ELSE Unmounted(c)

(***************************************************************************)
(* The model-selection screen (ScreenModelSelection.tsx).  selection is    *)
(* the component's state, the model store it reads (useModelStore: whether *)
(* the one model the screen shows is listed, downloaded, downloading,      *)
(* extracting), the downloadModel and selectModel promises it awaits, and  *)
(* counters of what it has called.  The store's functions report failure   *)
(* by resolving to false.                                                  *)
(***************************************************************************)

(* How many downloads the continue button starts.                          *)
MaxDownloads == 2

ModelId == "whisper-small-dv"

(* The component after its first render, before its effects.               *)
FreshSelection(listed, downloaded) ==
    [mounted          |-> TRUE,
     effectsRun       |-> FALSE,
     downloadingId    |-> None,
     selectedId       |-> None,
     isSelectingModel |-> FALSE,
     store            |-> [listed |-> listed, is_downloaded |-> downloaded,
                           downloading |-> FALSE, extracting |-> FALSE],
     downloads        |-> <<>>,
     selects          |-> 0,
     started          |-> 0,
     selectCalls      |-> 0,
     toasts           |-> 0,
     onNext           |-> 0]

FreshSelections ==
    { FreshSelection(TRUE, d) : d \in BOOLEAN } \cup { FreshSelection(FALSE, FALSE) }

FreshScreens ==
    { FreshScreen("macos", g) : g \in [PermissionNames -> BOOLEAN] }
    \cup { FreshScreen("linux", [k \in PermissionNames |-> FALSE]) }

(* The keys of the keyboard, Escape apart, and those among them that are   *)
(* modifiers.                                                              *)
Keys == {"ctrl", "k"}

Modifiers == {"ctrl"}

(* The shortcut screen (ScreenVoiceTest.tsx) after its first render: its   *)
(* state, the binding the settings hold, whether the backend has the       *)
(* binding suspended, and the handlers that are awaiting a command:        *)
(* suspending counts the startShortcutRecording calls awaiting             *)
(* suspendBinding, ending holds the cancel and key-up handlers awaiting    *)
(* updateBinding or resumeBinding.                                         *)
FreshShortcut ==
    [mounted             |-> TRUE,
     isRecordingShortcut |-> FALSE,
     pressedKeys         |-> <<>>,
     recordedKeys        |-> <<>>,
     originalBinding     |-> <<>>,
     binding             |-> <<"ctrl", "space">>,
     suspended           |-> FALSE,
     suspending          |-> 0,
     ending              |-> <<>>]

(* The onNext prop of the screen shown at step k is called, the screens    *)
(* being u, s and r once the caller has updated its own: nextStep runs and *)
(* the flow renders the screen of the step it now has.  A screen on its    *)
(* own (no flow) only has its call counted by the caller.                  *)
OnNext(k, u, s, r) ==
    /\ flow' = IF flow = None THEN None ELSE NextStep(flow, k)
    /\ \E fu \in (IF flow # None /\ flow.step = 0 THEN FreshScreens ELSE {None}),
          fs \in (IF flow # None /\ flow.step = 1 THEN FreshSelections ELSE {None}) :
         /\ ui' = IF flow # None /\ flow'.step # flow.step /\ flow'.step # 1
                  THEN None
                  ELSE Remount(u, fu, 1)
         /\ selection' = Remount(s, fs, 2)
         /\ shortcut' = Remount(r, FreshShortcut, 3)

----------------------------------------------------------------------------
(* The permissions screen: what it renders and its handlers.               *)

(* const allGranted = ...                                                  *)
AllGranted(permissions) ==
    permissions.accessibility = "granted" /\ permissions.microphone = "granted"

(* The pose computed at each render.                                       *)
Pose(permissions) ==
    IF AllGranted(permissions) THEN "cool"
    ELSE IF permissions.accessibility = "granted" \/ permissions.microphone = "granted"
    THEN "perk"
    ELSE "fidget"

(* The continue Button's disabled attribute.                               *)
ContinueDisabled(u) == ~AllGranted(u.permissions)

(* Removing the i-th element of a sequence.                                *)
Without(s, i) == SubSeq(s, 1, i - 1) \o SubSeq(s, i + 1, Len(s))

(* The render that follows a state update in which the handler itself has *)
(* started the initialisations `started`, with the effect on allGranted:   *)
(* it runs when allGranted has changed, and when allGranted is true and    *)
(* the ref is not set it sets the ref and starts the initialisation.       *)
(* initStarted keeps who started an initialisation since the permissions   *)
(* last became all granted, attempt how the initialisation started last    *)
(* has fared.                                                              *)
Render(before, after, started) ==
    LET rising == AllGranted(after.permissions) /\ ~AllGranted(before.permissions)
        byEffect == IF rising /\ ~after.didInitializeRef THEN <<"effect">> ELSE <<>>
    IN  [after EXCEPT
            !.didInitializeRef = IF byEffect # <<>> THEN TRUE ELSE @,
            !.inits = @ \o started \o byEffect,
            !.initStarted = (IF rising THEN <<>> ELSE @) \o started \o byEffect,
            !.attempt = IF started \o byEffect # <<>> THEN "pending" ELSE @]

SetPermissions(u, p) == Render(u, [u EXCEPT !.permissions = p], <<>>)

(* startPolling: a no-op when the interval is already set.                 *)
StartPolling(u) == [u EXCEPT !.pollingRef = TRUE]

GrantedOrNeeded(b) == IF b THEN "granted" ELSE "needed"

(* A variant of MountEffect that leaves accessibility as it was on other   *)
(* platforms than macOS.                                                   *)
MountEffectKeepsAccessibility ==
    /\ ui # None /\ ui.mounted /\ ~ui.effectsRun
    /\ LET u == [ui EXCEPT !.effectsRun = TRUE, !.isMacOS = (ui.platform = "macos")]
       IN  ui' = IF ui.platform = "macos"
                 THEN [u EXCEPT !.checkInitial = Some(ui.os)]
                 ELSE u
    /\ UNCHANGED <<sidecarVars, flow, selection, shortcut>>

(* The mount effect: platform() is read, and checkInitial starts the two   *)
(* checks on macOS or marks accessibility granted elsewhere.  Effects run  *)
(* before any click is handled.                                            *)
MountEffect ==
    /\ ui # None /\ ui.mounted /\ ~ui.effectsRun
    /\ LET u == [ui EXCEPT !.effectsRun = TRUE, !.isMacOS = (ui.platform = "macos")]
       IN  ui' = IF ui.platform = "macos"
                 THEN [u EXCEPT !.checkInitial = Some(ui.os)]
                 ELSE SetPermissions(u, [accessibility |-> "granted",
                                         microphone |-> "needed"])
    /\ UNCHANGED <<sidecarVars, flow, selection, shortcut>>

(* The two initial checks return: both statuses are overwritten.           *)
CheckInitialResolves ==
    /\ ui # None /\ ui.mounted /\ ui.checkInitial # None
    /\ ui' = SetPermissions([ui EXCEPT !.checkInitial = None],
                [accessibility |-> GrantedOrNeeded(ui.checkInitial[1].accessibility),
                 microphone    |-> GrantedOrNeeded(ui.checkInitial[1].microphone)])
    /\ UNCHANGED <<sidecarVars, flow, selection, shortcut>>

(* An initial check throws: the catch logs it.                             *)
CheckInitialFails ==
    /\ ui # None /\ ui.mounted /\ ui.checkInitial # None
    /\ ui' = [ui EXCEPT !.checkInitial = None]
    /\ UNCHANGED <<sidecarVars, flow, selection, shortcut>>

(* The user grants a permission in the system settings or dialog.          *)
UserGrantsPermission ==
    /\ ui # None /\ ui.mounted /\ ui.platform = "macos"
    /\ \E k \in PermissionNames :
         /\ ~ui.os[k]
         /\ ui' = [ui EXCEPT !.os[k] = TRUE]
    /\ UNCHANGED <<sidecarVars, flow, selection, shortcut>>

(* A click on the accessibility card's button (shown on macOS while the    *)
(* status is not granted, enabled while it is not waiting): the request    *)
(* is issued and awaited.                                                  *)
HandleGrantAccessibility ==
    /\ ui # None /\ ui.mounted /\ ui.effectsRun
    /\ ui.isMacOS
    /\ ui.permissions.accessibility = "needed"
    /\ ui.requests.accessibility < MaxPending
    /\ ui' = [ui EXCEPT !.requests.accessibility = @ + 1]
    /\ UNCHANGED <<sidecarVars, flow, selection, shortcut>>

(* requestAccessibilityPermission returns: the status becomes waiting and  *)
(* polling starts.                                                         *)
AccessibilityRequested ==
    /\ ui # None /\ ui.mounted /\ ui.requests.accessibility > 0
    /\ ui' = StartPolling(SetPermissions(
                [ui EXCEPT !.requests.accessibility = @ - 1],
                [ui.permissions EXCEPT !.accessibility = "waiting"]))
    /\ UNCHANGED <<sidecarVars, flow, selection, shortcut>>

(* requestAccessibilityPermission throws: a toast.                         *)
AccessibilityRequestFails ==
    /\ ui # None /\ ui.mounted /\ ui.requests.accessibility > 0
    /\ ui' = [ui EXCEPT !.requests.accessibility = @ - 1,
                        !.toasts = @ \cup {"accessibility"}]
    /\ UNCHANGED <<sidecarVars, flow, selection, shortcut>>

(* A click on the microphone card's button: on macOS the request is issued *)
(* and awaited, elsewhere refreshAudioDevices is.                          *)
HandleGrantMicrophone ==
    /\ ui # None /\ ui.mounted /\ ui.effectsRun
    /\ ui.permissions.microphone = "needed"
    /\ ui.requests.microphone < MaxPending
    /\ ui' = [ui EXCEPT !.requests.microphone = @ + 1]
    /\ UNCHANGED <<sidecarVars, flow, selection, shortcut>>

(* requestMicrophonePermission returns (macOS).                            *)
MicrophoneRequested ==
    /\ ui # None /\ ui.mounted /\ ui.requests.microphone > 0
    /\ ui.isMacOS
    /\ ui' = StartPolling(SetPermissions(
                [ui EXCEPT !.requests.microphone = @ - 1],
                [ui.permissions EXCEPT !.microphone = "waiting"]))
    /\ UNCHANGED <<sidecarVars, flow, selection, shortcut>>

(* requestMicrophonePermission throws (macOS): a toast.                    *)
MicrophoneRequestFails ==
    /\ ui # None /\ ui.mounted /\ ui.requests.microphone > 0
    /\ ui.isMacOS
    /\ ui' = [ui EXCEPT !.requests.microphone = @ - 1,
                        !.toasts = @ \cup {"microphone"}]
    /\ UNCHANGED <<sidecarVars, flow, selection, shortcut>>

(* refreshAudioDevices returns or throws (other platforms): the microphone *)
(* is marked granted either way.                                           *)
AudioDevicesRefreshed ==
    /\ ui # None /\ ui.mounted /\ ui.requests.microphone > 0
    /\ ~ui.isMacOS
    /\ ui' = SetPermissions([ui EXCEPT !.requests.microphone = @ - 1],
                            [ui.permissions EXCEPT !.microphone = "granted"])
    /\ UNCHANGED <<sidecarVars, flow, selection, shortcut>>

(* The interval fires: the two checks are issued and awaited.              *)
PollTick ==
    /\ ui # None /\ ui.mounted /\ ui.pollingRef
    /\ Len(ui.ticks) < MaxTicks
    /\ ui' = [ui EXCEPT !.ticks = Append(@, ui.os)]
    /\ UNCHANGED <<sidecarVars, flow, selection, shortcut>>

(* A tick's checks return: what is granted is marked granted, and when     *)
(* both are the interval is cleared and the initialisation started.        *)
PollTickResolves ==
    /\ ui # None /\ ui.mounted
    /\ \E i \in 1..Len(ui.ticks) :
         LET r == ui.ticks[i]
             p == [k \in PermissionNames |->
                      IF r[k] THEN "granted" ELSE ui.permissions[k]]
             u == [ui EXCEPT !.ticks = Without(@, i)]
             both == r.accessibility /\ r.microphone
             v == [u EXCEPT !.pollingRef = IF both THEN FALSE ELSE @,
                            !.permissions = p]
         IN  ui' = Render(ui, v, IF both THEN <<"poll">> ELSE <<>>)
    /\ UNCHANGED <<sidecarVars, flow, selection, shortcut>>

(* A tick's check throws: the catch logs it.                               *)
PollTickFails ==
    /\ ui # None /\ ui.mounted
    /\ \E i \in 1..Len(ui.ticks) : ui' = [ui EXCEPT !.ticks = Without(@, i)]
    /\ UNCHANGED <<sidecarVars, flow, selection, shortcut>>

(* An initialisation settles: a failed one started by the effect clears    *)
(* the ref, any other outcome only logs.                                   *)
RuntimeInitSettles ==
    /\ ui # None /\ ui.mounted
    /\ \E i \in 1..Len(ui.inits), ok \in BOOLEAN :
         ui' = [ui EXCEPT !.inits = Without(@, i),
                          !.attempt =
                              IF i # Len(ui.inits) THEN @
                              ELSE IF ok THEN "succeeded" ELSE "failed",
                          !.didInitializeRef =
                              IF ui.inits[i] = "effect" /\ ~ok THEN FALSE ELSE @]
    /\ UNCHANGED <<sidecarVars, flow, selection, shortcut>>

(* A click on the continue button, which is disabled unless allGranted:    *)
(* onNext is called and the flow replaces the screen.                      *)
Continue ==
    /\ ui # None /\ ui.mounted /\ ui.effectsRun
    /\ ~ContinueDisabled(ui)
    /\ OnNext(1, [ui EXCEPT !.onNext = @ + 1, !.mounted = FALSE], selection, shortcut)
    /\ UNCHANGED sidecarVars

PermNext ==
    \/ MountEffect
    \/ CheckInitialResolves
    \/ CheckInitialFails
    \/ UserGrantsPermission
    \/ HandleGrantAccessibility
    \/ AccessibilityRequested
    \/ AccessibilityRequestFails
    \/ HandleGrantMicrophone
    \/ MicrophoneRequested
    \/ MicrophoneRequestFails
    \/ AudioDevicesRefreshed
    \/ PollTick
    \/ PollTickResolves
    \/ PollTickFails
    \/ RuntimeInitSettles
    \/ Continue

PermSpec == PermInit /\ [][PermNext]_vars

----------------------------------------------------------------------------
(* The continue button of the permissions screen.                          *)

(* The permissions the platform requires.                                  *)
Required(u) == IF u.platform = "macos" THEN {"accessibility", "microphone"}
               ELSE {"microphone"}

RequiredGranted(u) == \A k \in Required(u) : u.permissions[k] = "granted"

C30_Button == (~ContinueDisabled(ui)) <=> RequiredGranted(ui)

C30_Step == ui'.onNext > ui.onNext => (RequiredGranted(ui) /\ ui'.onNext = 1)

(* C30: in every state of the permissions screen the continue button is    *)
(* enabled iff every permission the platform requires has the status       *)
(* granted, microphone and accessibility on macOS and microphone alone     *)
(* elsewhere, so it is disabled while a required one is needed or          *)
(* waiting; and onNext is called only from such a state.                   *)
C30_ContinueEnabled == [](C30_Button) /\ [][C30_Step]_vars

(* Another platform than macOS: the microphone granted, the button         *)
(* enabled and clicked.                                                    *)
C30_Witness ==
    /\ ui.platform = "linux"
    /\ ui.permissions.microphone = "granted"
    /\ ~ContinueDisabled(ui)
    /\ ui.onNext = 1

(* macOS with the microphone granted and accessibility waiting: disabled.  *)
C30_MacWitness ==
    /\ ui.platform = "macos"
    /\ ui.permissions = [accessibility |-> "waiting", microphone |-> "granted"]
    /\ ContinueDisabled(ui)

(* macOS with both granted after polling: enabled.                         *)
C30_MacGrantedWitness ==
    /\ ui.platform = "macos"
    /\ ui.initStarted # <<>>
    /\ ui.initStarted[1] = "poll"
    /\ ~ContinueDisabled(ui)

----------------------------------------------------------------------------
(* The character's pose on the permissions screen.                         *)

(* The pose the states table gives: by how many of the permissions the     *)
(* platform requires are granted.                                          *)
PoseByRequired(u) ==
    LET g == { k \in Required(u) : u.permissions[k] = "granted" }
    IN  IF g = Required(u) THEN "cool"
        ELSE IF g = {} THEN "fidget"
        ELSE "perk"

(* C31: on every platform the pose rendered is fidget while none of the    *)
(* required permissions is granted, perk while some but not all are, and   *)
(* cool when all are; where only the microphone is required the pose is    *)
(* fidget until the microphone is granted.                                 *)
C31_Pose == Pose(ui.permissions) = PoseByRequired(ui)

(* The same statement on macOS alone, where both permissions are required. *)
C31_MacPose == ui.platform = "macos" => Pose(ui.permissions) = PoseByRequired(ui)

----------------------------------------------------------------------------
(* The model-selection screen: its effects and handlers.                   *)

(* model?.is_downloaded && !stillDownloading && !stillExtracting           *)
ModelReady(store) ==
    store.listed /\ store.is_downloaded /\ ~store.downloading /\ ~store.extracting

(* A variant of WatchDownload without the isSelectingModel guard.          *)
WatchDownloadUnguarded(s) ==
    IF s.downloadingId # None /\ ModelReady(s.store)
    THEN [s EXCEPT !.isSelectingModel = TRUE,
                   !.selects = @ + 1,
                   !.selectCalls = @ + 1]
    ELSE s

(* The effect watching for the downloading model to finish: when it is     *)
(* ready and no selection is under way, selectModel is called.             *)
WatchDownload(s) ==
    IF s.downloadingId # None /\ ModelReady(s.store) /\ ~s.isSelectingModel
    THEN [s EXCEPT !.isSelectingModel = TRUE,
                   !.selects = @ + 1,
                   !.selectCalls = @ + 1]
    ELSE s

(* The effect setting the initial selection.                               *)
InitialSelection(s) ==
    IF s.selectedId = None /\ s.downloadingId = None /\ s.store.listed
    THEN [s EXCEPT !.selectedId = Some(ModelId)]
    ELSE s

(* A render of the mounted screen with its effects.                        *)
RenderSelection(s) ==
    IF s.mounted
    THEN WatchDownload(InitialSelection([s EXCEPT !.effectsRun = TRUE]))
    ELSE s

(* The continue Button's disabled attribute.                               *)
SelectionContinueDisabled(s) == s.downloadingId # None \/ s.selectedId = None

(* The screen's effects run after its first render, before any click.      *)
SelectionMountEffect ==
    /\ selection # None /\ selection.mounted /\ ~selection.effectsRun
    /\ selection' = RenderSelection(selection)
    /\ UNCHANGED <<sidecarVars, ui, flow, shortcut>>

(* The store finishes loading its list of models.                          *)
ModelsLoaded ==
    /\ selection # None /\ ~selection.store.listed
    /\ \E d \in BOOLEAN :
         selection' = RenderSelection(
             [selection EXCEPT !.store.listed = TRUE, !.store.is_downloaded = d])
    /\ UNCHANGED <<sidecarVars, ui, flow, shortcut>>

(* A click on the model's card, shown once the model is listed.            *)
HandleCardClick ==
    /\ selection # None /\ selection.mounted /\ selection.effectsRun
    /\ selection.store.listed
    /\ selection' = RenderSelection(
           IF selection.downloadingId = None
           THEN [selection EXCEPT !.selectedId = Some(ModelId)]
           ELSE selection)
    /\ UNCHANGED <<sidecarVars, ui, flow, shortcut>>

(* A variant of HandleContinue whose button is not disabled while a        *)
(* download is under way.                                                  *)
HandleContinueWhileDownloading ==
    /\ selection # None /\ selection.mounted /\ selection.effectsRun
    /\ selection.selectedId # None
    /\ selection.started < MaxDownloads
    /\ selection' = RenderSelection(
           [selection EXCEPT
               !.downloadingId = selection.selectedId,
               !.started = @ + 1,
               !.selectCalls = 0,
               !.downloads = Append(@, IF selection.store.is_downloaded
                                       THEN "ready" ELSE "downloading"),
               !.store.downloading = ~selection.store.is_downloaded])
    /\ UNCHANGED <<sidecarVars, ui, flow, shortcut>>

(* A click on the continue button: handleDownloadModel sets downloadingId  *)
(* and calls downloadModel, which it awaits.  The store marks the model    *)
(* downloading unless it has it already.                                   *)
HandleContinue ==
    /\ selection # None /\ selection.mounted /\ selection.effectsRun
    /\ ~SelectionContinueDisabled(selection)
    /\ selection.started < MaxDownloads
    /\ selection' = RenderSelection(
           [selection EXCEPT
               !.downloadingId = selection.selectedId,
               !.started = @ + 1,
               !.selectCalls = 0,
               !.downloads = Append(@, IF selection.store.is_downloaded
                                       THEN "ready" ELSE "downloading"),
               !.store.downloading = ~selection.store.is_downloaded])
    /\ UNCHANGED <<sidecarVars, ui, flow, shortcut>>

(* The store: the download completes, and the model is either ready or     *)
(* has to be extracted.                                                    *)
StoreDownloadCompletes ==
    /\ selection # None
    /\ \E i \in 1..Len(selection.downloads), extract \in BOOLEAN :
         /\ selection.downloads[i] = "downloading"
         /\ selection' = RenderSelection(
                [selection EXCEPT
                    !.downloads[i] = IF extract THEN "extracting" ELSE "ready",
                    !.store.downloading = FALSE,
                    !.store.extracting = extract,
                    !.store.is_downloaded = ~extract])
    /\ UNCHANGED <<sidecarVars, ui, flow, shortcut>>

(* The store: the extraction completes.                                    *)
StoreExtractionCompletes ==
    /\ selection # None
    /\ \E i \in 1..Len(selection.downloads) :
         /\ selection.downloads[i] = "extracting"
         /\ selection' = RenderSelection(
                [selection EXCEPT !.downloads[i] = "ready",
                                  !.store.extracting = FALSE,
                                  !.store.is_downloaded = TRUE])
    /\ UNCHANGED <<sidecarVars, ui, flow, shortcut>>

(* The store: the download or the extraction fails.                        *)
StoreDownloadFails ==
    /\ selection # None
    /\ \E i \in 1..Len(selection.downloads) :
         /\ selection.downloads[i] \in {"downloading", "extracting"}
         /\ selection' = RenderSelection(
                [selection EXCEPT !.downloads[i] = "failed",
                                  !.store.downloading = FALSE,
                                  !.store.extracting = FALSE])
    /\ UNCHANGED <<sidecarVars, ui, flow, shortcut>>

(* The store renders the screen again without changing what it reads.      *)
StoreUpdates ==
    /\ selection # None /\ selection.mounted /\ selection.effectsRun
    /\ selection' = RenderSelection(selection)
    /\ UNCHANGED <<sidecarVars, ui, flow, shortcut>>

(* A variant of DownloadModelReturns that keeps downloadingId on failure.  *)
DownloadModelReturnsKeepsId ==
    /\ selection # None
    /\ \E i \in 1..Len(selection.downloads) :
         /\ selection.downloads[i] \in {"ready", "failed"}
         /\ LET s == [selection EXCEPT !.downloads = Without(@, i)]
            IN  selection' =
                  IF selection.downloads[i] = "ready" THEN s
                  ELSE [s EXCEPT !.toasts = @ + 1]
    /\ UNCHANGED <<sidecarVars, ui, flow, shortcut>>

(* downloadModel resolves: true once the model is there, false when the    *)
(* download failed, and then a toast and downloadingId is cleared.         *)
DownloadModelReturns ==
    /\ selection # None
    /\ \E i \in 1..Len(selection.downloads) :
         /\ selection.downloads[i] \in {"ready", "failed"}
         /\ LET s == [selection EXCEPT !.downloads = Without(@, i)]
            IN  selection' =
                  IF selection.downloads[i] = "ready" THEN s
                  ELSE IF ~s.mounted THEN [s EXCEPT !.toasts = @ + 1]
                  ELSE RenderSelection([s EXCEPT !.toasts = @ + 1,
                                                 !.downloadingId = None,
                                                 !.isSelectingModel = FALSE])
    /\ UNCHANGED <<sidecarVars, ui, flow, shortcut>>

(* selectModel resolves: on success onNext is called, otherwise a toast    *)
(* and downloadingId and isSelectingModel are cleared.                     *)
SelectModelReturns ==
    /\ selection # None /\ selection.selects > 0
    /\ \E success \in BOOLEAN :
         LET s == [selection EXCEPT !.selects = @ - 1]
         IN  IF success
             THEN OnNext(2, ui, [s EXCEPT !.onNext = @ + 1], shortcut)
             ELSE /\ selection' =
                       IF ~s.mounted THEN [s EXCEPT !.toasts = @ + 1]
                       ELSE RenderSelection([s EXCEPT !.toasts = @ + 1,
                                                      !.downloadingId = None,
                                                      !.isSelectingModel = FALSE])
                  /\ UNCHANGED <<ui, flow, shortcut>>
    /\ UNCHANGED sidecarVars

(* The welcome screen's button (ScreenWelcome): onNext.                    *)
WelcomeNext ==
    /\ flow # None /\ flow.step = 0 /\ flow.completed = 0
    /\ OnNext(0, ui, selection, shortcut)
    /\ UNCHANGED sidecarVars

(* Whether a sequence holds a value.                                       *)
Includes(s, x) == \E i \in DOMAIN s : s[i] = x

(* prev.includes(key) ? prev : [...prev, key]                              *)
AddKey(s, key) == IF Includes(s, key) THEN s ELSE Append(s, key)

(* keys.filter((k) => k !== key)                                           *)
RECURSIVE FilterOut(_, _)
FilterOut(s, key) ==
    IF s = <<>> THEN <<>>
    ELSE IF Head(s) = key THEN FilterOut(Tail(s), key)
    ELSE <<Head(s)>> \o FilterOut(Tail(s), key)

(* The keys of s that are modifiers, or those that are not, in order.      *)
RECURSIVE KeysWhere(_, _)
KeysWhere(s, modifier) ==
    IF s = <<>> THEN <<>>
    ELSE IF (Head(s) \in Modifiers) = modifier
    THEN <<Head(s)>> \o KeysWhere(Tail(s), modifier)
    ELSE KeysWhere(Tail(s), modifier)

(* sortedKeys: the stable sort that puts the modifiers first.              *)
SortedKeys(s) == KeysWhere(s, TRUE) \o KeysWhere(s, FALSE)

(* A click on the shortcut: startShortcutRecording keeps the current       *)
(* binding, then issues suspendBinding and awaits it.                      *)
StartShortcutRecording ==
    /\ shortcut # None /\ shortcut.mounted
    /\ ~shortcut.isRecordingShortcut
    /\ shortcut.suspending < MaxPending
    /\ shortcut' = [shortcut EXCEPT !.originalBinding = shortcut.binding,
                                    !.suspending = @ + 1]
    /\ UNCHANGED <<sidecarVars, ui, flow, selection>>

(* suspendBinding returns: the binding is suspended, and the screen, when  *)
(* still there, starts recording; its effect adds the key listeners.       *)
SuspendBindingReturns ==
    /\ shortcut # None /\ shortcut.suspending > 0
    /\ LET s == [shortcut EXCEPT !.suspending = @ - 1, !.suspended = TRUE]
       IN  shortcut' = IF s.mounted
                       THEN [s EXCEPT !.pressedKeys = <<>>,
                                      !.recordedKeys = <<>>,
                                      !.isRecordingShortcut = TRUE]
                       ELSE s
    /\ UNCHANGED <<sidecarVars, ui, flow, selection>>

(* handleKeyDown for a key other than Escape.                              *)
HandleKeyDown ==
    /\ shortcut # None /\ shortcut.mounted /\ shortcut.isRecordingShortcut
    /\ \E key \in Keys :
         shortcut' = [shortcut EXCEPT !.pressedKeys = AddKey(@, key),
                                      !.recordedKeys = AddKey(@, key)]
    /\ UNCHANGED <<sidecarVars, ui, flow, selection>>

(* handleKeyDown for Escape: handleCancel restores the original binding,   *)
(* when there is one, and goes on to resume.                               *)
HandleCancel ==
    /\ shortcut # None /\ shortcut.mounted /\ shortcut.isRecordingShortcut
    /\ Len(shortcut.ending) < MaxPending
    /\ shortcut' = [shortcut EXCEPT !.ending = Append(@,
           IF shortcut.originalBinding # <<>>
           THEN [at |-> "updateBinding", binding |-> shortcut.originalBinding]
           ELSE [at |-> "resumeBinding", binding |-> <<>>])]
    /\ UNCHANGED <<sidecarVars, ui, flow, selection>>

(* handleKeyUp: the key leaves pressedKeys, and when none is left and some *)
(* were recorded the recorded combination is saved.                        *)
HandleKeyUp ==
    /\ shortcut # None /\ shortcut.mounted /\ shortcut.isRecordingShortcut
    /\ Len(shortcut.ending) < MaxPending
    /\ \E key \in Keys :
         LET nextPressed == FilterOut(shortcut.pressedKeys, key)
             s == [shortcut EXCEPT !.pressedKeys = nextPressed]
         IN  shortcut' =
               IF nextPressed = <<>> /\ shortcut.recordedKeys # <<>>
               THEN [s EXCEPT !.ending = Append(@,
                        [at |-> "updateBinding",
                         binding |-> SortedKeys(shortcut.recordedKeys)])]
               ELSE s
    /\ UNCHANGED <<sidecarVars, ui, flow, selection>>

(* updateBinding returns or throws: either way the finally block issues    *)
(* resumeBinding.                                                          *)
UpdateBindingReturns ==
    /\ shortcut # None
    /\ \E i \in 1..Len(shortcut.ending), ok \in BOOLEAN :
         /\ shortcut.ending[i].at = "updateBinding"
         /\ shortcut' = [shortcut EXCEPT
                !.ending[i].at = "resumeBinding",
                !.binding = IF ok THEN shortcut.ending[i].binding ELSE @]
    /\ UNCHANGED <<sidecarVars, ui, flow, selection>>

(* A variant of ResumeBindingReturns for a finally block without the call  *)
(* of resumeBinding.                                                       *)
ResumeBindingSkipped ==
    /\ shortcut # None
    /\ \E i \in 1..Len(shortcut.ending) :
         /\ shortcut.ending[i].at = "resumeBinding"
         /\ LET s == [shortcut EXCEPT !.ending = Without(@, i)]
            IN  shortcut' = IF s.mounted
                            THEN [s EXCEPT !.isRecordingShortcut = FALSE,
                                           !.pressedKeys = <<>>,
                                           !.recordedKeys = <<>>,
                                           !.originalBinding = <<>>]
                            ELSE s
    /\ UNCHANGED <<sidecarVars, ui, flow, selection>>

(* resumeBinding returns: the binding is resumed, and the screen, when     *)
(* still there, stops recording.                                           *)
ResumeBindingReturns ==
    /\ shortcut # None
    /\ \E i \in 1..Len(shortcut.ending) :
         /\ shortcut.ending[i].at = "resumeBinding"
         /\ LET s == [shortcut EXCEPT !.ending = Without(@, i),
                                      !.suspended = FALSE]
            IN  shortcut' = IF s.mounted
                            THEN [s EXCEPT !.isRecordingShortcut = FALSE,
                                           !.pressedKeys = <<>>,
                                           !.recordedKeys = <<>>,
                                           !.originalBinding = <<>>]
                            ELSE s
    /\ UNCHANGED <<sidecarVars, ui, flow, selection>>

(* The shortcut screen's button, enabled whether or not a shortcut is      *)
(* being recorded: onNext.  The effect's cleanup removes the listeners.    *)
ShortcutNext ==
    /\ flow # None /\ flow.step = 3
    /\ shortcut # None /\ shortcut.mounted
    /\ OnNext(3, ui, selection, shortcut)
    /\ UNCHANGED sidecarVars

(* The transcription-test screen's button: onNext, here onComplete.        *)
TranscriptionTestNext ==
    /\ flow # None /\ flow.step = 4
    /\ flow.completed < MaxCompletions
    /\ OnNext(4, ui, selection, shortcut)
    /\ UNCHANGED sidecarVars

FlowInit ==
    /\ SidecarInit
    /\ flow = FreshFlow
    /\ ui = None /\ selection = None /\ shortcut = None

FlowNext ==
    \/ WelcomeNext
    \/ PermNext
    \/ SelectionMountEffect
    \/ ModelsLoaded
    \/ HandleCardClick
    \/ HandleContinue
    \/ StoreDownloadCompletes
    \/ StoreExtractionCompletes
    \/ StoreDownloadFails
    \/ StoreUpdates
    \/ DownloadModelReturns
    \/ SelectModelReturns
    \/ StartShortcutRecording
    \/ SuspendBindingReturns
    \/ HandleKeyDown
    \/ HandleCancel
    \/ HandleKeyUp
    \/ UpdateBindingReturns
    \/ ResumeBindingReturns
    \/ ShortcutNext
    \/ TranscriptionTestNext

FlowSpec == FlowInit /\ [][FlowNext]_vars

----------------------------------------------------------------------------
(* The number of screens of the onboarding flow.                           *)

(* The dots the flow's footer shows.                                       *)
Dots == StepIndicator(totalSteps, flow.step)

ActiveDots == { index \in DOMAIN Dots : Dots[index] }

C32_Shape ==
    /\ flow.step \in 0..4
    /\ DOMAIN Dots = 0..4
    /\ ActiveDots = {flow.step}
    /\ flow.completed > 0 => flow.shown = 0..4

C32_Step ==
    flow'.completed # flow.completed =>
        (flow.step = 4 /\ flow'.completed = flow.completed + 1 /\ flow'.step = 4)

----------------------------------------------------------------------------
(* Downloads on the model-selection screen.                                *)

(* The downloads under way in the store.                                   *)
InProgress(s) ==
    { i \in 1..Len(s.downloads) : s.downloads[i] \in {"downloading", "extracting"} }

C36_State ==
    selection # None =>
        /\ Cardinality(InProgress(selection)) <= 1
        /\ selection.selectCalls <= 1
        /\ selection.onNext <= 1
        /\ selection.selectCalls = 1 => ModelReady(selection.store)

C36_Step ==
    (selection # None /\ selection' # None /\ selection.started <= selection'.started) =>
        /\ (selection.downloadingId # None /\ selection'.downloadingId # None)
               => selection'.selectedId = selection.selectedId
        /\ selection'.started > selection.started
               => /\ selection.downloadingId = None
                  /\ selection.selectedId # None
                  /\ selection'.downloadingId = selection.selectedId
        /\ selection'.onNext > selection.onNext
               => /\ selection.selects > 0
                  /\ selection'.selects = selection.selects - 1
                  /\ selection.selectCalls = 1
                  /\ selection'.toasts = selection.toasts
        /\ (selection'.toasts > selection.toasts /\ selection.mounted)
               => /\ selection'.downloadingId = None
                  /\ selection'.selectedId # None
                  /\ selection'.onNext = selection.onNext

(* C36: on the model-selection screen, for each download the continue      *)
(* button starts: the button starts one only while downloadingId is not    *)
(* set, so at most one download is in progress, and while it is set the    *)
(* selection does not change; selectModel is called at most once, when the *)
(* model is ready, however often the store renders the screen; onNext is   *)
(* called at most once and only when a selectModel has reported success;   *)
(* and when the download or the selection fails downloadingId is cleared   *)
(* with a model still selected, so that the button is enabled again.       *)
C36_OneDownload == [](C36_State) /\ [][C36_Step]_vars

(* A first download failed, the second succeeded, the model was selected   *)
(* once and onNext called.                                                 *)
C36_Witness ==
    /\ selection # None
    /\ selection.started = 2
    /\ selection.toasts = 1
    /\ selection.selectCalls = 1
    /\ selection.onNext = 1
    /\ flow.step = 3

(* A failed selectModel: the button is enabled again.                      *)
C36_RetryWitness ==
    /\ selection # None /\ selection.mounted
    /\ selection.toasts = 1
    /\ selection.selectCalls = 1
    /\ selection.started = 1
    /\ ~SelectionContinueDisabled(selection)

----------------------------------------------------------------------------
(* The order of the screens.                                               *)

C33_State ==
    /\ flow.step <= totalSteps - 1
    /\ flow.shown = 0..flow.step
    /\ flow.calls = flow.step + flow.completed
    /\ flow.completed > 0 => flow.step = totalSteps - 1

C33_Step ==
    /\ flow'.step >= flow.step
    /\ flow'.calls \in {flow.calls, flow.calls + 1}
    /\ flow'.calls = flow.calls
           => (flow'.step = flow.step /\ flow'.completed = flow.completed)
    /\ flow'.calls = flow.calls + 1
           => IF flow.step = totalSteps - 1
              THEN flow'.step = flow.step /\ flow'.completed = flow.completed + 1
              ELSE flow'.step = flow.step + 1 /\ flow'.completed = flow.completed

(* C33: the step changes only by a call of nextStep and each call made     *)
(* below the last step raises it by exactly one, so it never decreases,    *)
(* never exceeds totalSteps - 1 and every step up to the current one has   *)
(* been shown; onComplete is called only by a call of nextStep made on the *)
(* last step, which leaves the step where it is.                           *)
C33_StepOrder == [](C33_State) /\ [][C33_Step]_vars

(* The model-selection screen has called onNext after its asynchronous     *)
(* selection, and the flow has gone on to its end.                         *)
C33_Witness ==
    /\ flow.calls = 5
    /\ flow.completed = 1
    /\ selection # None /\ selection.onNext = 1 /\ ~selection.mounted

----------------------------------------------------------------------------
(* The status of a permission once it is granted.                          *)

C34_Step ==
    (ui # None /\ ui' # None) =>
        \A k \in PermissionNames :
            ui.permissions[k] = "granted" => ui'.permissions[k] = "granted"

(* C34: on the permissions screen a permission whose status has become     *)
(* granted never goes back to needed or waiting, however the grant         *)
(* handlers, the polling ticks and the initial check interleave.           *)
C34_GrantedStays == [][C34_Step]_vars

----------------------------------------------------------------------------
(* The runtime initialisation on the permissions screen.                   *)

(* The initialisations a step starts.                                      *)
InitsStarted == Len(ui'.inits) - Len(ui.inits)

C35_State ==
    ui # None => ~({"poll", "effect"} \subseteq { ui.initStarted[i] : i \in DOMAIN ui.initStarted })

C35_Step ==
    (ui # None /\ ui' # None /\ InitsStarted > 0) =>
        /\ InitsStarted = 1
        /\ ui.attempt \in {"none", "failed"}

(* C35: on the permissions screen the runtime initialisation is started at *)
(* most once when all permissions have become granted and again only when  *)
(* the attempt before has failed; the polling callback and the allGranted  *)
(* effect never both start it for the same grant.                          *)
C35_InitOnce == [](C35_State) /\ [][C35_Step]_vars

----------------------------------------------------------------------------
(* The transcribe binding while a shortcut is recorded.                    *)

(* No handler of the shortcut screen is awaiting a command.                *)
ShortcutIdle == shortcut.suspending = 0 /\ shortcut.ending = <<>>

(* C37: every suspendBinding issued by starting shortcut recording is      *)
(* followed by a resumeBinding on every way the recording can end, by      *)
(* Escape, by releasing all keys, whether updateBinding fails or not, or   *)
(* by leaving the screen: once no handler is awaiting a command the        *)
(* binding is suspended only while the screen is there and recording.      *)
C37_Resumed ==
    (shortcut # None /\ ShortcutIdle /\ shortcut.suspended)
        => (shortcut.mounted /\ shortcut.isRecordingShortcut)

(* The same while the screen is shown: the ways of ending a recording      *)
(* other than leaving the screen.                                          *)
C37_ResumedOnScreen ==
    (shortcut # None /\ shortcut.mounted /\ ShortcutIdle /\ shortcut.suspended)
        => shortcut.isRecordingShortcut

====
